---- MODULE Spec2Model ----
(***************************************************************************)
(* wg-scanner: the scan engine of lib/scanner.js.                          *)
(*                                                                         *)
(* A scan is a chain of asynchronous operations (lstat, readdir, md5 and   *)
(* the storage delegate's calls), each continued by a callback.  The model *)
(* keeps, per scan() caller, one record with the objects the scan works on *)
(* (the scope, the forward scanner, the reverse scanner, the closures'     *)
(* variables) and the operation that is outstanding (pc).  One action is   *)
(* the completion of one outstanding operation: it runs the callback and   *)
(* everything the callback calls synchronously, up to the next             *)
(* asynchronous call.                                                      *)
(*                                                                         *)
(* JavaScript strings are sequences of one-character strings.              *)
(***************************************************************************)
EXTENDS Integers, Sequences, FiniteSets, TLC

VARIABLES
  sc,       \* scan() callers: id -> the objects and closures of its scans
  fs,       \* the file system: long file name -> entry
  store,    \* the long-term storage: the fingerprints, in insertion order
  now,      \* the long-term storage's clock (its "current_timestamp")
  faults,   \* number of failures the environment may still inject
  changes   \* number of changes the environment may still make to the file system

vars == <<sc, fs, store, now, faults, changes>>

(***************************************************************************)
(* Bounds of the model.                                                    *)
(***************************************************************************)
MaxScans == 3      \* scan() calls per caller
MaxFaults == 1     \* injected failures (file system, storage, md5)
MaxChanges == 2    \* file system changes between scans
MaxTime == 2       \* modification times are 1..MaxTime

(***************************************************************************)
(* JavaScript values.                                                      *)
(***************************************************************************)
Null == 0                      \* null / undefined timestamp (vanishedAt)
UndefinedUuid == 0             \* uuid: undefined
UndefinedCount == -1           \* _totalRecords, _processed: undefined
Undefined == <<"undefined">>   \* an undefined string (no string has this value)
NobodyId == "ab8f87ea-ad93-4365-bdf5-045fee58ee3b"
NoError == ""                  \* err: null / undefined

Min(a, b) == IF a < b THEN a ELSE b

\* Character codes (UTF-16 code units) of the characters used in names.
CharCode(c) ==
  CASE c = "*" -> 42
    [] c = "." -> 46
    [] c = "/" -> 47
    [] c = "A" -> 65
    [] c = "B" -> 66
    [] c = "D" -> 68
    [] c = "P" -> 80
    [] c = "a" -> 97
    [] c = "b" -> 98
    [] c = "d" -> 100
    [] c = "p" -> 112
    [] c = "r" -> 114
    [] c = "t" -> 116
    [] OTHER -> 127

\* String.prototype.toLowerCase
LowerChar(c) ==
  CASE c = "A" -> "a"
    [] c = "B" -> "b"
    [] c = "D" -> "d"
    [] c = "P" -> "p"
    [] OTHER -> c

toLowerCase(str) == [i \in 1..Len(str) |-> LowerChar(str[i])]

\* a < b for JavaScript strings (comparison by code units)
StringLess(a, b) ==
  \E k \in 1..(Min(Len(a), Len(b)) + 1) :
    /\ \A j \in 1..(k - 1) : a[j] = b[j]
    /\ \/ k = Len(a) + 1 /\ k <= Len(b)
       \/ k <= Len(a) /\ k <= Len(b) /\ CharCode(a[k]) < CharCode(b[k])

\* utils.startsWith / utils.endsWith
startsWith(str, prefix) ==
  /\ Len(prefix) <= Len(str)
  /\ SubSeq(str, 1, Len(prefix)) = prefix

endsWith(str, suffix) ==
  /\ Len(suffix) <= Len(str)
  /\ SubSeq(str, Len(str) - Len(suffix) + 1, Len(str)) = suffix

\* String.prototype.indexOf(sub) !== -1
Contains(str, sub) ==
  \E k \in 1..(Len(str) - Len(sub) + 1) : SubSeq(str, k, k + Len(sub) - 1) = sub

\* String.prototype.substr(1)
substr1(str) == SubSeq(str, 2, Len(str))

\* position of the last occurrence of character c in str, 0 when there is none
LastIndexOf(str, c) ==
  IF \E k \in 1..Len(str) : str[k] = c
  THEN CHOOSE k \in 1..Len(str) : str[k] = c /\ \A j \in (k + 1)..Len(str) : str[j] # c
  ELSE 0

\* utils.getShortFilename: the part of a long file name after the last "/"
getShortFilename(longFilename) ==
  SubSeq(longFilename, LastIndexOf(longFilename, "/") + 1, Len(longFilename))

\* utils.getExtension: the part of a short file name after the last ".",
\* empty when the name has no "."
getExtension(shortFilename) ==
  IF LastIndexOf(shortFilename, ".") = 0 THEN <<>>
  ELSE SubSeq(shortFilename, LastIndexOf(shortFilename, ".") + 1, Len(shortFilename))

\* Array.prototype.sort() of an array of distinct strings
SortStrings(S) == SortSeq(CHOOSE q \in [1..Cardinality(S) -> S] : \A x \in S : \E i \in DOMAIN q : q[i] = x,
                          StringLess)

(***************************************************************************)
(* The file system.                                                        *)
(***************************************************************************)
Absent == [kind |-> "absent", size |-> 0, mtime |-> 0, content |-> <<>>]

\* the fs.Stats of an entry; NullStats stands for stats === null
NullStats == [kind |-> "null", size |-> 0, mtime |-> 0]
StatsOf(e) == [kind |-> e.kind, size |-> e.size, mtime |-> e.mtime]
isFile(stats) == stats.kind = "file"
isDirectory(stats) == stats.kind = "dir"
isSymbolicLink(stats) == stats.kind = "symlink"
IsNullStats(stats) == stats.kind = "null"

Exists(fsys, p) == p \in DOMAIN fsys /\ fsys[p].kind # "absent"

\* fs.lstat: the outcomes the call can have on the current file system.
\* ENOENT when the entry does not exist; EACCES and EIO are failures the
\* environment may inject.
LstatOutcomes(fsys, p, mayFail) ==
  (IF Exists(fsys, p)
   THEN {[err |-> NoError, stats |-> StatsOf(fsys[p])]}
   ELSE {[err |-> "ENOENT", stats |-> NullStats]})
  \cup (IF mayFail THEN {[err |-> "EACCES", stats |-> NullStats],
                         [err |-> "EIO", stats |-> NullStats]}
        ELSE {})

\* fs.readdir: the names of the entries of a directory
ChildNames(fsys, dir) ==
  { getShortFilename(p) : p \in { q \in DOMAIN fsys :
        /\ Exists(fsys, q)
        /\ startsWith(q, dir \o <<"/">>)
        /\ ~Contains(SubSeq(q, Len(dir) + 2, Len(q)), <<"/">>)
        /\ Len(q) > Len(dir) + 1 } }

ReaddirOutcomes(fsys, dir, mayFail) ==
  {[err |-> NoError, files |-> ChildNames(fsys, dir)]}
  \cup (IF mayFail THEN {[err |-> "EACCES", files |-> {}], [err |-> "EIO", files |-> {}]}
        ELSE {})

\* utils.md5: the digest of a file's content (an opaque, injective digest)
Md5Of(content) == <<"md5", content>>

Md5Outcomes(fsys, p, mayFail) ==
  (IF Exists(fsys, p)
   THEN {[err |-> NoError, md5 |-> Md5Of(fsys[p].content)]}
   ELSE {[err |-> "ENOENT", md5 |-> <<>>]})
  \cup (IF mayFail THEN {[err |-> "EIO", md5 |-> <<>>]} ELSE {})

(***************************************************************************)
(* Fingerprints and the long-term storage (StorageDelegate).  The storage  *)
(* is the one the interface documents: fingerprints are returned ordered   *)
(* by long file name, insertFingerprint assigns the uuid, updateFingerprint*)
(* patches the fingerprint with the given uuid.                            *)
(***************************************************************************)
NoFingerprint ==
  [uuid |-> UndefinedUuid, shortFilename |-> Undefined, longFilename |-> Undefined,
   mtime |-> 0, size |-> 0, md5 |-> <<>>, vanishedAt |-> Null, hidden |-> FALSE,
   ownerId |-> ""]

IsFingerprint(f) == f.longFilename # Undefined

FingerprintLess(f, g) == StringLess(f.longFilename, g.longFilename)

\* fingerprints ordered by long file name
OrderedFingerprints(fingerprints) == SortSeq(fingerprints, FingerprintLess)

InFolder(folder, f) ==
  startsWith(f.longFilename, IF endsWith(folder, <<"/">>) THEN folder ELSE folder \o <<"/">>)

\* StorageDelegate.getFingerPrint
Store_getFingerPrint(st, longFilename) ==
  IF \E i \in DOMAIN st : st[i].longFilename = longFilename
  THEN st[CHOOSE i \in DOMAIN st :
            /\ st[i].longFilename = longFilename
            /\ \A j \in 1..(i - 1) : st[j].longFilename # longFilename]
  ELSE NoFingerprint

\* StorageDelegate.getFingerPrints
Store_getFingerPrints(st, folder, offset, limit) ==
  LET all == OrderedFingerprints(SelectSeq(st, LAMBDA f : InFolder(folder, f)))
  IN SubSeq(all, offset + 1, Min(offset + limit, Len(all)))

\* StorageDelegate.countFingerPrints
Store_countFingerPrints(st, folder) ==
  Len(SelectSeq(st, LAMBDA f : InFolder(folder, f)))

\* the fields of `patch` written over those of `value`
Patch(value, patch) ==
  [k \in DOMAIN value |-> IF k \in DOMAIN patch THEN patch[k] ELSE value[k]]

\* StorageDelegate.updateFingerprint
Store_updateFingerprint(st, newFingerPrint) ==
  [i \in DOMAIN st |-> IF st[i].uuid = newFingerPrint.uuid
                       THEN Patch(st[i], newFingerPrint) ELSE st[i]]

\* StorageDelegate.insertFingerprint: the storage determines the uuid
Store_insertFingerprint(st, newFingerPrint) ==
  Append(st, [newFingerPrint EXCEPT !.uuid = Len(st) + 1])

\* StorageDelegate.preLoadFingerprints: the fingerprints from longFilename
\* on, in order; the storage may return fewer than count, but returns the
\* fingerprint of longFilename when it has one.
Store_preLoadFingerprints(st, longFilename, count) ==
  LET from == OrderedFingerprints(
                SelectSeq(st, LAMBDA f : ~StringLess(f.longFilename, longFilename)))
      least == IF from # <<>> /\ from[1].longFilename = longFilename THEN 1 ELSE 0
  IN { SubSeq(from, 1, k) : k \in least..Min(count, Len(from)) }

\* StorageDelegate.getVanishedAt
Store_getVanishedAt(clock) == clock

(***************************************************************************)
(* The result of a call in continuation-passing style: either an           *)
(* asynchronous operation is now outstanding (called = FALSE, st.pc names  *)
(* it, st.arg is its argument), or the callback has been called (called =  *)
(* TRUE) with err and the arguments.                                       *)
(***************************************************************************)
\* the outstanding operations that are calls of the storage delegate
StorageOperations ==
  {"FilesScope_nextFingerprint_getFingerPrint",
   "DirectoryScope_startReverseScan_countFingerPrints",
   "DirectoryScope_reverseScanNextBatch_getFingerPrints",
   "FingerprintsScanner_getFingerPrint_preLoadFingerprints",
   "FingerprintsScanner_createFingerprint_insertFingerprint",
   "FingerprintsScanner_updateFingerprint_updateFingerprint",
   "VanishedFilesHandler_processNext_updateFingerprint"}

\* one entry of the scan's trace: a notification of the progress delegate, a
\* call of the storage delegate, a call of a handler, or what the built-in
\* handler called back with
Event(ev, args) == [ev |-> ev, args |-> args]

Log(s, ev, args) == [s EXCEPT !.trace = Append(@, Event(ev, args))]

Outstanding(s, op, arg) ==
  [st |-> [s EXCEPT !.pc = op, !.arg = arg, !.outstanding = @ + 1,
                    !.trace = IF op \in StorageOperations
                              THEN Append(@, Event(op, <<>>)) ELSE @],
   called |-> FALSE, err |-> NoError,
   longFilename |-> Undefined, shortFilename |-> Undefined, stats |-> NullStats,
   fingerprint |-> NoFingerprint, isInScope |-> FALSE, count |-> UndefinedCount,
   wasProcessed |-> FALSE]

Callback(s, err) ==
  [st |-> s, called |-> TRUE, err |-> err,
   longFilename |-> Undefined, shortFilename |-> Undefined, stats |-> NullStats,
   fingerprint |-> NoFingerprint, isInScope |-> FALSE, count |-> UndefinedCount,
   wasProcessed |-> FALSE]

CallbackProcessed(s, wasProcessed) ==
  [Callback(s, NoError) EXCEPT !.wasProcessed = wasProcessed]

CallbackFile(s, longFilename, shortFilename, stats) ==
  [Callback(s, NoError) EXCEPT !.longFilename = longFilename,
                               !.shortFilename = shortFilename, !.stats = stats]

CallbackFingerprint(s, fingerprint, stats, isInScope) ==
  [Callback(s, NoError) EXCEPT !.fingerprint = fingerprint, !.stats = stats,
                               !.isInScope = isInScope]

CallbackCount(s, count) == [Callback(s, NoError) EXCEPT !.count = count]

(***************************************************************************)
(* FilesScope                                                              *)
(***************************************************************************)
FilesScope_startScan(s) ==
  Callback([s EXCEPT !.scope.remaining = s.scope.longFilenames], NoError)

FilesScope_nextFile(s) ==
  IF s.scope.remaining = <<>> THEN Callback(s, NoError)
  ELSE Outstanding([s EXCEPT !.scope.remaining = Tail(@)],
                   "FilesScope_nextFile_lstat", Head(s.scope.remaining))

\* a variant of the callback below: a path that cannot be accessed is an
\* error of the iteration
FilesScope_nextFile_lstat_intolerant(s, r) ==
  IF r.err # NoError
  THEN IF r.err = "ENOENT" THEN FilesScope_nextFile(s)
       ELSE Callback(s, r.err)
  ELSE IF IsNullStats(r.stats) \/ ~isFile(r.stats) THEN FilesScope_nextFile(s)
  ELSE CallbackFile(s, s.arg, getShortFilename(s.arg), r.stats)

\* the callback of fs.lstat in FilesScope.nextFile; s.arg is longFilename
FilesScope_nextFile_lstat(s, r) ==
  IF r.err # NoError
  THEN IF r.err \in {"EACCES", "ENOENT"} THEN FilesScope_nextFile(s)
       ELSE Callback(s, r.err)
  ELSE IF IsNullStats(r.stats) \/ ~isFile(r.stats) THEN FilesScope_nextFile(s)
  ELSE CallbackFile(s, s.arg, getShortFilename(s.arg), r.stats)

FilesScope_startReverseScan(s) ==
  CallbackCount([s EXCEPT !.scope.remaining = s.scope.longFilenames],
                Len(s.scope.longFilenames))

FilesScope_nextFingerprint(s) ==
  IF s.scope.remaining = <<>> THEN Callback(s, NoError)
  ELSE Outstanding([s EXCEPT !.scope.remaining = Tail(@)],
                   "FilesScope_nextFingerprint_getFingerPrint", Head(s.scope.remaining))

\* a variant of the callback below: a path without fingerprint ends the
\* iteration
FilesScope_nextFingerprint_getFingerPrint_stops(s, err, fingerprint) ==
  IF err # NoError THEN Callback(s, err)
  ELSE IF ~IsFingerprint(fingerprint) THEN Callback(s, NoError)
  ELSE Outstanding([s EXCEPT !.loc.fingerprint = fingerprint],
                   "FilesScope_nextFingerprint_lstat", fingerprint.longFilename)

\* a variant of the callback below: the fingerprint is given to the callback
\* without the metadata of its file
FilesScope_nextFingerprint_getFingerPrint_blind(s, err, fingerprint) ==
  IF err # NoError THEN Callback(s, err)
  ELSE IF ~IsFingerprint(fingerprint) THEN FilesScope_nextFingerprint(s)
  ELSE CallbackFingerprint(s, fingerprint, NullStats, TRUE)

\* the callback of getFingerPrint in FilesScope.nextFingerprint
FilesScope_nextFingerprint_getFingerPrint(s, err, fingerprint) ==
  IF err # NoError THEN Callback(s, err)
  ELSE IF ~IsFingerprint(fingerprint) THEN FilesScope_nextFingerprint(s)
  ELSE Outstanding([s EXCEPT !.loc.fingerprint = fingerprint],
                   "FilesScope_nextFingerprint_lstat", fingerprint.longFilename)

\* the callback of fs.lstat in FilesScope.nextFingerprint
FilesScope_nextFingerprint_lstat(s, r) ==
  IF r.err # NoError /\ r.err \notin {"EACCES", "ENOENT"} THEN Callback(s, r.err)
  ELSE CallbackFingerprint(s, s.loc.fingerprint,
                           IF r.err # NoError THEN NullStats ELSE r.stats, TRUE)

(***************************************************************************)
(* DirectoryScope                                                          *)
(***************************************************************************)
DirectoryScope_isPathElementExcluded(scope, shortFilename, longFilename) ==
  \E i \in DOMAIN scope.exclusions :
    LET pattern == scope.exclusions[i]
    IN IF startsWith(pattern, <<"*">>)
       THEN endsWith(shortFilename, substr1(pattern))
       ELSE \/ shortFilename = pattern
            \/ Contains(toLowerCase(longFilename), <<"/">> \o pattern \o <<"/">>)

\* a variant of the filter below: the maximum size is not looked at
DirectoryScope_isExcluded_unbounded(scope, longFilename, shortFilenameArg, stats) ==
  LET shortFilename == toLowerCase(shortFilenameArg)
      hasStats == ~IsNullStats(stats)
  IN IF hasStats /\ isFile(stats) /\ scope.minFileSize # 0 /\ stats.size < scope.minFileSize
       THEN TRUE
     ELSE IF hasStats /\ isFile(stats) /\ Len(getExtension(shortFilename)) = 0 THEN TRUE
     ELSE IF hasStats /\ isSymbolicLink(stats) THEN TRUE
     ELSE IF hasStats /\ stats.size = 0 THEN TRUE
     ELSE IF DirectoryScope_isPathElementExcluded(scope, shortFilename, longFilename) THEN TRUE
     ELSE IF Len(scope.fileInclusions) > 0 /\ hasStats /\ isFile(stats)
       THEN ~ \E i \in DOMAIN scope.fileInclusions :
                LET pattern == scope.fileInclusions[i]
                IN IF startsWith(pattern, <<"*">>)
                   THEN endsWith(shortFilename, substr1(pattern))
                   ELSE shortFilename = pattern
     ELSE FALSE

\* a variant of the filter below: a file that matches the allowlist is not
\* tested against the exclusion patterns
DirectoryScope_isExcluded_allowed(scope, longFilename, shortFilenameArg, stats) ==
  LET shortFilename == toLowerCase(shortFilenameArg)
      hasStats == ~IsNullStats(stats)
      included == \E i \in DOMAIN scope.fileInclusions :
                    LET pattern == scope.fileInclusions[i]
                    IN IF startsWith(pattern, <<"*">>)
                       THEN endsWith(shortFilename, substr1(pattern))
                       ELSE shortFilename = pattern
  IN IF hasStats /\ isFile(stats) /\ scope.minFileSize # 0 /\ stats.size < scope.minFileSize
       THEN TRUE
     ELSE IF hasStats /\ isFile(stats) /\ scope.maxFileSize # 0 /\ stats.size > scope.maxFileSize
       THEN TRUE
     ELSE IF hasStats /\ isFile(stats) /\ Len(getExtension(shortFilename)) = 0 THEN TRUE
     ELSE IF hasStats /\ isSymbolicLink(stats) THEN TRUE
     ELSE IF hasStats /\ stats.size = 0 THEN TRUE
     ELSE IF Len(scope.fileInclusions) > 0 /\ hasStats /\ isFile(stats)
       THEN ~included
     ELSE DirectoryScope_isPathElementExcluded(scope, shortFilename, longFilename)

DirectoryScope_isExcluded(scope, longFilename, shortFilenameArg, stats) ==
  LET shortFilename == toLowerCase(shortFilenameArg)
      hasStats == ~IsNullStats(stats)
  IN IF hasStats /\ isFile(stats) /\ scope.minFileSize # 0 /\ stats.size < scope.minFileSize
       THEN TRUE
     ELSE IF hasStats /\ isFile(stats) /\ scope.maxFileSize # 0 /\ stats.size > scope.maxFileSize
       THEN TRUE
     ELSE IF hasStats /\ isFile(stats) /\ Len(getExtension(shortFilename)) = 0 THEN TRUE
     ELSE IF hasStats /\ isSymbolicLink(stats) THEN TRUE
     ELSE IF hasStats /\ stats.size = 0 THEN TRUE
     ELSE IF DirectoryScope_isPathElementExcluded(scope, shortFilename, longFilename) THEN TRUE
     ELSE IF Len(scope.fileInclusions) > 0 /\ hasStats /\ isFile(stats)
       THEN ~ \E i \in DOMAIN scope.fileInclusions :
                LET pattern == scope.fileInclusions[i]
                IN IF startsWith(pattern, <<"*">>)
                   THEN endsWith(shortFilename, substr1(pattern))
                   ELSE shortFilename = pattern
     ELSE FALSE

\* a variant of the function below: the folder is put on the work list the
\* scope was left with
DirectoryScope_startScan_appending(s) ==
  Callback([s EXCEPT !.scope.stack = @ \o <<s.scope.folder>>,
                     !.hist.entered = <<s.scope.folder>>], NoError)

DirectoryScope_startScan(s) ==
  Callback([s EXCEPT !.scope.stack = <<s.scope.folder>>,
                     !.hist.entered = <<s.scope.folder>>], NoError)

DirectoryScope_nextFile(s) ==
  IF s.scope.stack = <<>> THEN Callback(s, NoError)
  ELSE Outstanding([s EXCEPT !.scope.stack = Tail(@)],
                   "DirectoryScope_nextFile_lstat", Head(s.scope.stack))

\* a variant of the callback below: every error of fs.lstat is given to the
\* callback
DirectoryScope_nextFile_lstat_intolerant(s, r) ==
  IF r.err # NoError THEN Callback(s, r.err)
  ELSE IF IsNullStats(r.stats) THEN DirectoryScope_nextFile(s)
  ELSE IF isFile(r.stats)
    THEN IF DirectoryScope_isExcluded(s.scope, s.arg, getShortFilename(s.arg), r.stats)
         THEN DirectoryScope_nextFile(s)
         ELSE CallbackFile(s, s.arg, getShortFilename(s.arg), r.stats)
  ELSE IF isDirectory(r.stats)
    THEN IF DirectoryScope_isExcluded(s.scope, s.arg, getShortFilename(s.arg), r.stats)
         THEN DirectoryScope_nextFile(s)
         ELSE Outstanding(s, "DirectoryScope_nextFile_readdir", s.arg)
  ELSE DirectoryScope_nextFile(s)

\* a variant of the callback below: a symbolic link is listed like a directory
DirectoryScope_nextFile_lstat_following(s, r) ==
  IF r.err # NoError
  THEN IF r.err \in {"EACCES", "ENOENT"} THEN DirectoryScope_nextFile(s)
       ELSE Callback(s, r.err)
  ELSE IF IsNullStats(r.stats) THEN DirectoryScope_nextFile(s)
  ELSE IF isFile(r.stats)
    THEN IF DirectoryScope_isExcluded(s.scope, s.arg, getShortFilename(s.arg), r.stats)
         THEN DirectoryScope_nextFile(s)
         ELSE CallbackFile(s, s.arg, getShortFilename(s.arg), r.stats)
  ELSE IF isDirectory(r.stats)
    THEN IF DirectoryScope_isExcluded(s.scope, s.arg, getShortFilename(s.arg), r.stats)
         THEN DirectoryScope_nextFile(s)
         ELSE Outstanding(s, "DirectoryScope_nextFile_readdir", s.arg)
  ELSE IF isSymbolicLink(r.stats)
    THEN Outstanding(s, "DirectoryScope_nextFile_readdir", s.arg)
  ELSE DirectoryScope_nextFile(s)

\* a variant of the callback below: a directory is listed without a look at
\* the filter
DirectoryScope_nextFile_lstat_unpruned(s, r) ==
  IF r.err # NoError
  THEN IF r.err \in {"EACCES", "ENOENT"} THEN DirectoryScope_nextFile(s)
       ELSE Callback(s, r.err)
  ELSE IF IsNullStats(r.stats) THEN DirectoryScope_nextFile(s)
  ELSE IF isFile(r.stats)
    THEN IF DirectoryScope_isExcluded(s.scope, s.arg, getShortFilename(s.arg), r.stats)
         THEN DirectoryScope_nextFile(s)
         ELSE CallbackFile(s, s.arg, getShortFilename(s.arg), r.stats)
  ELSE IF isDirectory(r.stats)
    THEN Outstanding(s, "DirectoryScope_nextFile_readdir", s.arg)
  ELSE DirectoryScope_nextFile(s)

\* the callback of fs.lstat in DirectoryScope.nextFile; s.arg is longFilename
DirectoryScope_nextFile_lstat(s, r) ==
  IF r.err # NoError
  THEN IF r.err \in {"EACCES", "ENOENT"} THEN DirectoryScope_nextFile(s)
       ELSE Callback(s, r.err)
  ELSE IF IsNullStats(r.stats) THEN DirectoryScope_nextFile(s)
  ELSE IF isFile(r.stats)
    THEN IF DirectoryScope_isExcluded(s.scope, s.arg, getShortFilename(s.arg), r.stats)
         THEN DirectoryScope_nextFile(s)
         ELSE CallbackFile(s, s.arg, getShortFilename(s.arg), r.stats)
  ELSE IF isDirectory(r.stats)
    THEN IF DirectoryScope_isExcluded(s.scope, s.arg, getShortFilename(s.arg), r.stats)
         THEN DirectoryScope_nextFile(s)
         ELSE Outstanding(s, "DirectoryScope_nextFile_readdir", s.arg)
  ELSE DirectoryScope_nextFile(s)

\* the callback of fs.readdir in DirectoryScope.nextFile
DirectoryScope_nextFile_readdir(s, r) ==
  IF r.err # NoError
  THEN IF r.err \in {"EACCES", "ENOENT"} THEN DirectoryScope_nextFile(s)
       ELSE Callback(s, r.err)
  ELSE LET files == SortStrings(r.files)
           children == [i \in 1..Len(files) |-> s.arg \o <<"/">> \o files[i]]
       IN DirectoryScope_nextFile(
            [s EXCEPT !.scope.stack = @ \o children,
                      !.hist.entered = @ \o children])

DirectoryScope_startReverseScan(s) ==
  Outstanding([s EXCEPT !.scope.offset = 0, !.scope.fingerprints = <<>>,
                        !.scope.totalRecords = UndefinedCount,
                        !.scope.processed = UndefinedCount,
                        !.scope.reverseScanFinished = FALSE],
              "DirectoryScope_startReverseScan_countFingerPrints", s.scope.folder)

\* a variant of the callback below: when the count fails the reverse
\* iteration starts without it
DirectoryScope_startReverseScan_countFingerPrints_lenient(s, err, count) ==
  IF err # NoError THEN CallbackCount([s EXCEPT !.scope.processed = 0], 0)
  ELSE CallbackCount([s EXCEPT !.scope.totalRecords = count, !.scope.processed = 0], count)

\* the callback of countFingerPrints in DirectoryScope.startReverseScan
DirectoryScope_startReverseScan_countFingerPrints(s, err, count) ==
  IF err # NoError THEN Callback(s, err)
  ELSE CallbackCount([s EXCEPT !.scope.totalRecords = count, !.scope.processed = 0], count)

\* the batch size of DirectoryScope._reverseScanNextBatch
limit == 5000

DirectoryScope_reverseScanNextBatch(s) ==
  Outstanding(s, "DirectoryScope_reverseScanNextBatch_getFingerPrints", s.scope.folder)

DirectoryScope_nextFingerprint(s) ==
  IF s.scope.fingerprints = <<>>
  THEN IF s.scope.reverseScanFinished THEN Callback(s, NoError)
       ELSE DirectoryScope_reverseScanNextBatch(s)
  ELSE Outstanding([s EXCEPT !.scope.fingerprints = Tail(@),
                             !.loc.fingerprint = Head(s.scope.fingerprints)],
                   "DirectoryScope_nextFingerprint_lstat",
                   Head(s.scope.fingerprints).longFilename)

\* a variant of the callback below: a page of the size of the batch is taken
\* for the last one too
DirectoryScope_reverseScanNextBatch_getFingerPrints_inclusive(s, err, fingerprints) ==
  IF err # NoError THEN Callback(s, err)
  ELSE LET t == [s EXCEPT !.scope.fingerprints = @ \o fingerprints,
                          !.scope.reverseScanFinished =
                              IF Len(fingerprints) <= limit THEN TRUE ELSE @,
                          !.scope.offset = @ + Len(fingerprints)]
       IN IF t.scope.fingerprints = <<>>
          THEN Callback([t EXCEPT !.scope.reverseScanNext = TRUE], NoError)
          ELSE DirectoryScope_nextFingerprint(t)

\* the callback of getFingerPrints in DirectoryScope._reverseScanNextBatch,
\* continued by the callback nextFingerprint gave to _reverseScanNextBatch
DirectoryScope_reverseScanNextBatch_getFingerPrints(s, err, fingerprints) ==
  IF err # NoError THEN Callback(s, err)
  ELSE LET t == [s EXCEPT !.scope.fingerprints = @ \o fingerprints,
                          !.scope.reverseScanFinished =
                              IF Len(fingerprints) < limit THEN TRUE ELSE @,
                          !.scope.offset = @ + Len(fingerprints)]
       IN IF t.scope.fingerprints = <<>>
          THEN Callback([t EXCEPT !.scope.reverseScanNext = TRUE], NoError)
          ELSE DirectoryScope_nextFingerprint(t)

\* the callback of fs.lstat in DirectoryScope.nextFingerprint
DirectoryScope_nextFingerprint_lstat(s, r) ==
  IF r.err # NoError /\ r.err \notin {"EACCES", "ENOENT"} THEN Callback(s, r.err)
  ELSE LET stats == IF r.err # NoError THEN NullStats ELSE r.stats
           fingerprint == s.loc.fingerprint
           isInScope == ~DirectoryScope_isExcluded(s.scope, fingerprint.longFilename,
                                                   fingerprint.shortFilename, stats)
       IN CallbackFingerprint([s EXCEPT !.scope.processed = @ + 1],
                              fingerprint, stats, isInScope)

\* the scope's methods, by the variant of the scope
Scope_startScan(s) ==
  IF s.scope.type = "files" THEN FilesScope_startScan(s) ELSE DirectoryScope_startScan(s)

Scope_nextFile(s) ==
  IF s.scope.type = "files" THEN FilesScope_nextFile(s) ELSE DirectoryScope_nextFile(s)

Scope_startReverseScan(s) ==
  IF s.scope.type = "files" THEN FilesScope_startReverseScan(s)
  ELSE DirectoryScope_startReverseScan(s)

Scope_nextFingerprint(s) ==
  IF s.scope.type = "files" THEN FilesScope_nextFingerprint(s)
  ELSE DirectoryScope_nextFingerprint(s)

(***************************************************************************)
(* The objects of one scan() caller.                                       *)
(***************************************************************************)
NoLocals ==
  [longFilename |-> Undefined, shortFilename |-> Undefined, stats |-> NullStats,
   fingerprint |-> NoFingerprint, isInScope |-> FALSE,
   h |-> <<>>, processed |-> FALSE, failed |-> FALSE,
   newFingerPrint |-> [uuid |-> UndefinedUuid, vanishedAt |-> Null]]

ZeroStats == [scanned |-> 0, processed |-> 0, errors |-> 0]

\* new FingerprintsScanner(...)
NewFingerprintsScanner ==
  [totalScanned |-> 0, totalProcessed |-> 0, totalErrors |-> 0,
   totalInserted |-> 0, totalUpdated |-> 0, fingerprintsCache |-> <<>>]

\* new ReverseScanner(...)
NewReverseScanner ==
  [totalFingerprints |-> 0, totalScanned |-> 0, totalProcessed |-> 0,
   totalErrors |-> 0, currentFileIsError |-> FALSE]

\* new FilesScope(longFilenames)
NewFilesScope(longFilenames) ==
  [type |-> "files", longFilenames |-> longFilenames, folder |-> <<>>,
   exclusions |-> <<>>, fileInclusions |-> <<>>, minFileSize |-> 0, maxFileSize |-> 0,
   remaining |-> <<>>, stack |-> <<>>, offset |-> 0, totalRecords |-> UndefinedCount,
   processed |-> UndefinedCount, fingerprints |-> <<>>, reverseScanFinished |-> FALSE,
   reverseScanNext |-> FALSE]

\* new DirectoryScope(folder).exclude(..).includeFiles(..)
\*    .excludeFilesSmallerThan(..).excludeFilesLargerThan(..);
\* a size bound that is not set (undefined) is 0: both are falsy in the filter
NewDirectoryScope(folder, exclusions, fileInclusions, minFileSize, maxFileSize) ==
  [type |-> "dir", longFilenames |-> <<>>, folder |-> folder,
   exclusions |-> [i \in DOMAIN exclusions |-> toLowerCase(exclusions[i])],
   fileInclusions |-> [i \in DOMAIN fileInclusions |-> toLowerCase(fileInclusions[i])],
   minFileSize |-> minFileSize, maxFileSize |-> maxFileSize,
   remaining |-> <<>>, stack |-> <<>>, offset |-> 0, totalRecords |-> UndefinedCount,
   processed |-> UndefinedCount, fingerprints |-> <<>>, reverseScanFinished |-> FALSE,
   reverseScanNext |-> FALSE]

\* what the model remembers of a scan to state the properties
NoHistory ==
  [rescan |-> FALSE,       \* this scan follows a scan that completed, without an
                           \* injected failure, on the same file system
   aborted |-> FALSE,      \* this scan follows a scan of the same caller that failed
   faulted |-> FALSE,      \* a failure was injected during this scan
   fault |-> NoError,      \* the last failure injected during this scan
   storeAtStart |-> <<>>,  \* the storage when scan() was called
   inserted |-> {},        \* uuids inserted by this scan
   updated |-> {},         \* uuids updated by the forward pass of this scan
   delivered |-> {},       \* uuids the scope's reverse iteration delivered
   failed |-> {},          \* uuids for which a handler called back with an error
   changed |-> {},         \* uuids a handler reported it processed
   entered |-> <<>>]       \* paths put on the work list of a directory scope

\* the second argument of scan()'s callback: absent (callback(err)), or the
\* statistics of the two passes
NoStatistics == [given |-> FALSE, forward |-> ZeroStats, reverse |-> ZeroStats]

Statistics(cumulatedStats) ==
  [given |-> TRUE, forward |-> cumulatedStats.forward, reverse |-> cumulatedStats.reverse]

NewCaller(scope, handlers) ==
  [pc |-> "idle", arg |-> <<>>, outstanding |-> 0, scans |-> 0,
   scope |-> scope, handlers |-> handlers, scanOptions |-> [force |-> FALSE],
   forward |-> NewFingerprintsScanner, reverse |-> NewReverseScanner,
   instanciatedHandlers |-> <<>>, loc |-> NoLocals,
   err |-> NoError, cumulatedStats |-> [forward |-> ZeroStats, reverse |-> ZeroStats],
   callbacks |-> 0, result |-> NoStatistics, trace |-> <<>>, hist |-> NoHistory]

(***************************************************************************)
(* scan(): the callbacks it gives to the two scanners                      *)
(***************************************************************************)
\* scan()'s own callback is called: the scan is over
scan_callback(s, err, stats) ==
  [s EXCEPT !.pc = IF err # NoError THEN "failed" ELSE "done",
            !.arg = <<>>, !.err = err, !.loc = NoLocals,
            !.callbacks = @ + 1, !.result = stats]

\* the callback scan() gives to ReverseScanner.scan
scan_ReverseScanner_scan(s, err, stats) ==
  IF err # NoError THEN scan_callback(s, err, NoStatistics)
  ELSE LET t == Log([s EXCEPT !.cumulatedStats.reverse =
                       [scanned |-> @.scanned + stats.scanned,
                        processed |-> @.processed + stats.processed,
                        errors |-> @.errors + stats.errors]],
                    "scanEnded", <<>>)
       IN scan_callback(t, NoError, Statistics(t.cumulatedStats))

(***************************************************************************)
(* VanishedFilesHandler                                                    *)
(***************************************************************************)
\* a variant of the test below: an empty file is not a vanished file
VanishedFilesHandler_vanished_sized(isInScope, stats) ==
  ~isInScope \/ IsNullStats(stats)

\* the test of VanishedFilesHandler.processNext that tells a vanished file
VanishedFilesHandler_vanished(isInScope, stats) ==
  ~isInScope \/ IsNullStats(stats) \/ stats.size = 0

\* a variant of the test below: a fingerprint marked as vanished is never
\* cleared
VanishedFilesHandler_isChanged_marks(vanished, wasVanished) ==
  vanished /\ ~wasVanished

\* isChanged of VanishedFilesHandler.processNext
VanishedFilesHandler_isChanged(vanished, wasVanished) ==
  vanished # wasVanished

\* a variant of the partial fingerprint below: it carries the mtime of the
\* file too
VanishedFilesHandler_newFingerPrint_touches(fingerprint, stats, vanishedAt) ==
  [uuid |-> fingerprint.uuid, vanishedAt |-> vanishedAt, mtime |-> stats.mtime]

\* newFingerPrint of VanishedFilesHandler.processNext, when isChanged
VanishedFilesHandler_newFingerPrint(fingerprint, stats, vanishedAt) ==
  [uuid |-> fingerprint.uuid, vanishedAt |-> vanishedAt]

\* VanishedFilesHandler.processNext; the arguments are the closure's
\* variables s.loc.fingerprint, s.loc.stats, s.loc.isInScope
VanishedFilesHandler_processNext(s) ==
  LET fingerprint == s.loc.fingerprint
      stats == s.loc.stats
      vanished == VanishedFilesHandler_vanished(s.loc.isInScope, stats)
      wasVanished == fingerprint.vanishedAt # Null
      newFingerPrint ==
        VanishedFilesHandler_newFingerPrint(
          fingerprint, stats, IF vanished THEN Store_getVanishedAt(now) ELSE Null)
  IN IF ~VanishedFilesHandler_isChanged(vanished, wasVanished)
     THEN CallbackProcessed(s, FALSE)
     ELSE Outstanding([s EXCEPT !.loc.newFingerPrint = newFingerPrint],
                      "VanishedFilesHandler_processNext_updateFingerprint", <<>>)

\* the callback of updateFingerprint in VanishedFilesHandler.processNext
VanishedFilesHandler_processNext_updateFingerprint(s, err) ==
  IF err # NoError THEN Callback(s, err) ELSE CallbackProcessed(s, TRUE)

(***************************************************************************)
(* ReverseScanner                                                          *)
(***************************************************************************)
ReverseScanner_logProgress(s) ==
  Log(s, "reverseScanProgress",
      <<s.reverse.totalFingerprints, s.reverse.totalScanned,
        s.reverse.totalProcessed, s.reverse.totalErrors>>)

\* the callback ReverseScanner.scan gives to _processNext
\* a variant of the callback below: the error is looked at before the last
\* progress is notified
ReverseScanner_scan_processNext_silent(s, err) ==
  IF err # NoError THEN scan_ReverseScanner_scan(s, err, ZeroStats)
  ELSE LET t == ReverseScanner_logProgress(s)
       IN scan_ReverseScanner_scan(
            Log(t, "reverseScanEnded", <<>>), NoError,
            [scanned |-> t.reverse.totalScanned,
             processed |-> t.reverse.totalProcessed,
             errors |-> t.reverse.totalErrors])

ReverseScanner_scan_processNext(s, err) ==
  LET t == ReverseScanner_logProgress(s)
  IN IF err # NoError THEN scan_ReverseScanner_scan(t, err, ZeroStats)
     ELSE scan_ReverseScanner_scan(
            Log(t, "reverseScanEnded", <<>>), NoError,
            [scanned |-> t.reverse.totalScanned,
             processed |-> t.reverse.totalProcessed,
             errors |-> t.reverse.totalErrors])

RECURSIVE ReverseScanner_processNext(_)
RECURSIVE ReverseScanner_processNextHandler(_)

\* a variant of the callback _processNext gives to _processNextHandler: a
\* fingerprint that failed and was processed counts twice
ReverseScanner_processNext_processNextHandler_both(s, err, processed, failed) ==
  IF err # NoError THEN ReverseScanner_scan_processNext(s, err)
  ELSE ReverseScanner_processNext(
         [s EXCEPT !.reverse.totalErrors = IF failed THEN @ + 1 ELSE @,
                   !.reverse.totalProcessed = IF processed THEN @ + 1 ELSE @])

\* the callback _processNext gives to _processNextHandler
ReverseScanner_processNext_processNextHandler(s, err, processed, failed) ==
  IF err # NoError THEN ReverseScanner_scan_processNext(s, err)
  ELSE ReverseScanner_processNext(
         IF failed THEN [s EXCEPT !.reverse.totalErrors = @ + 1]
         ELSE IF processed THEN [s EXCEPT !.reverse.totalProcessed = @ + 1]
         ELSE s)

\* a variant of the callback _processNextHandler gives to handler.processNext:
\* the error of a handler is given to the callback of _processNextHandler
ReverseScanner_processNextHandler_processNext_aborts(s, handler, err, wasProcessed) ==
  LET uuid == s.loc.fingerprint.uuid
      t == [s EXCEPT !.hist.failed = IF err # NoError THEN @ \cup {uuid} ELSE @,
                     !.hist.changed = IF err = NoError /\ wasProcessed
                                      THEN @ \cup {uuid} ELSE @,
                     !.trace = IF handler = "VanishedFilesHandler"
                               THEN Append(@, Event("processNextResult",
                                                    <<handler, uuid, err, wasProcessed>>))
                               ELSE @]
  IN IF err # NoError
     THEN ReverseScanner_processNext_processNextHandler(t, err, s.loc.processed, TRUE)
     ELSE ReverseScanner_processNextHandler(
            [t EXCEPT !.loc.processed = @ \/ wasProcessed])

\* the callback _processNextHandler gives to handler.processNext;
\* s.arg is the name of the handler
ReverseScanner_processNextHandler_processNext(s, handler, err, wasProcessed) ==
  LET uuid == s.loc.fingerprint.uuid
      t == [s EXCEPT !.hist.failed = IF err # NoError THEN @ \cup {uuid} ELSE @,
                     !.hist.changed = IF err = NoError /\ wasProcessed
                                      THEN @ \cup {uuid} ELSE @,
                     !.trace = IF handler = "VanishedFilesHandler"
                               THEN Append(@, Event("processNextResult",
                                                    <<handler, uuid, err, wasProcessed>>))
                               ELSE @]
  IN IF err # NoError
     THEN ReverseScanner_processNextHandler(
            [t EXCEPT !.loc.failed = TRUE, !.reverse.currentFileIsError = TRUE])
     ELSE ReverseScanner_processNextHandler(
            [t EXCEPT !.loc.processed = @ \/ wasProcessed])

\* a variant of _processNextHandler: the handler is shifted out of the list of
\* the scan too, as if _processNext had given the list and not a copy of it
ReverseScanner_processNextHandler_shared(s) ==
  IF s.loc.h = <<>>
  THEN ReverseScanner_processNext_processNextHandler(s, NoError, s.loc.processed,
                                                     s.loc.failed)
  ELSE LET handler == Head(s.loc.h)
           t == Log([s EXCEPT !.loc.h = Tail(@), !.instanciatedHandlers = Tail(@)],
                    "processNext",
                    <<handler, s.loc.fingerprint, s.loc.stats, s.loc.isInScope>>)
       IN IF handler = "VanishedFilesHandler"
          THEN LET r == VanishedFilesHandler_processNext(t)
               IN IF r.called
                  THEN ReverseScanner_processNextHandler_processNext(
                         r.st, handler, r.err, r.wasProcessed)
                  ELSE r.st
          ELSE Outstanding(t, "ReverseScanHandler_processNext", handler).st

\* ReverseScanner._processNextHandler; the arguments are s.loc.h (handlers),
\* s.loc.fingerprint, s.loc.stats, s.loc.isInScope, s.loc.processed, s.loc.failed
ReverseScanner_processNextHandler(s) ==
  IF s.loc.h = <<>>
  THEN ReverseScanner_processNext_processNextHandler(s, NoError, s.loc.processed,
                                                     s.loc.failed)
  ELSE LET handler == Head(s.loc.h)
           t == Log([s EXCEPT !.loc.h = Tail(@)], "processNext",
                    <<handler, s.loc.fingerprint, s.loc.stats, s.loc.isInScope>>)
       IN IF handler = "VanishedFilesHandler"
          THEN LET r == VanishedFilesHandler_processNext(t)
               IN IF r.called
                  THEN ReverseScanner_processNextHandler_processNext(
                         r.st, handler, r.err, r.wasProcessed)
                  ELSE r.st
          ELSE Outstanding(t, "ReverseScanHandler_processNext", handler).st

\* a variant of the callback below: a fingerprint the scope reports out of
\* scope is counted and handed to the handlers like the others
ReverseScanner_processNext_nextFingerprint_unskipped(r) ==
  LET s == [r.st EXCEPT !.reverse.currentFileIsError = FALSE]
  IN IF r.err # NoError THEN ReverseScanner_scan_processNext(s, r.err)
     ELSE IF ~IsFingerprint(r.fingerprint) THEN ReverseScanner_scan_processNext(s, NoError)
     ELSE LET d == [s EXCEPT !.hist.delivered = @ \cup {r.fingerprint.uuid}]
          IN ReverseScanner_processNextHandler(
               [ReverseScanner_logProgress(
                  [d EXCEPT !.reverse.totalScanned = @ + 1])
                EXCEPT !.loc = [NoLocals EXCEPT !.h = s.instanciatedHandlers,
                                                !.fingerprint = r.fingerprint,
                                                !.stats = r.stats,
                                                !.isInScope = r.isInScope]])

\* the callback _processNext gives to scope.nextFingerprint
ReverseScanner_processNext_nextFingerprint(r) ==
  LET s == [r.st EXCEPT !.reverse.currentFileIsError = FALSE]
  IN IF r.err # NoError THEN ReverseScanner_scan_processNext(s, r.err)
     ELSE IF ~IsFingerprint(r.fingerprint) THEN ReverseScanner_scan_processNext(s, NoError)
     ELSE LET d == [s EXCEPT !.hist.delivered = @ \cup {r.fingerprint.uuid}]
          IN IF ~r.isInScope THEN ReverseScanner_processNext(d)
             ELSE ReverseScanner_processNextHandler(
                    [ReverseScanner_logProgress(
                       [d EXCEPT !.reverse.totalScanned = @ + 1])
                     EXCEPT !.loc = [NoLocals EXCEPT !.h = s.instanciatedHandlers,
                                                     !.fingerprint = r.fingerprint,
                                                     !.stats = r.stats,
                                                     !.isInScope = r.isInScope]])

\* ReverseScanner._processNext
ReverseScanner_processNext(s) ==
  LET r == Scope_nextFingerprint(s)
  IN IF r.called THEN ReverseScanner_processNext_nextFingerprint(r) ELSE r.st

\* the callback ReverseScanner.scan gives to scope.startReverseScan
ReverseScanner_scan_startReverseScan(s, err, count) ==
  IF err # NoError THEN scan_ReverseScanner_scan(s, err, ZeroStats)
  ELSE ReverseScanner_processNext([s EXCEPT !.reverse.totalFingerprints = count])

\* ReverseScanner.scan(handlers)
ReverseScanner_scan(s, handlers) ==
  LET t == Log([s EXCEPT !.instanciatedHandlers = handlers,
                         !.reverse = [NewReverseScanner EXCEPT !.totalFingerprints = 0]],
               "reverseScanStarted", <<>>)
      r == Scope_startReverseScan(t)
  IN IF r.called THEN ReverseScanner_scan_startReverseScan(r.st, r.err, r.count)
     ELSE r.st

\* a variant of the callback below: the error of the forward pass is given to
\* scan()'s callback and the reverse pass is run all the same
scan_FingerprintsScanner_scan_unreturned(s, err, stats) ==
  ReverseScanner_scan(
    [(IF err # NoError THEN scan_callback(s, err, NoStatistics) ELSE s)
     EXCEPT !.cumulatedStats.forward =
       [scanned |-> @.scanned + stats.scanned,
        processed |-> @.processed + stats.processed,
        errors |-> @.errors + stats.errors]],
    <<"VanishedFilesHandler">> \o s.handlers)

\* the callback scan() gives to FingerprintsScanner.scan: the reverse
\* scanner and the handlers ([VanishedFilesHandler].concat(handlers)) are made
scan_FingerprintsScanner_scan(s, err, stats) ==
  IF err # NoError THEN scan_callback(s, err, NoStatistics)
  ELSE ReverseScanner_scan(
         [s EXCEPT !.cumulatedStats.forward =
            [scanned |-> @.scanned + stats.scanned,
             processed |-> @.processed + stats.processed,
             errors |-> @.errors + stats.errors]],
         <<"VanishedFilesHandler">> \o s.handlers)

(***************************************************************************)
(* FingerprintsScanner                                                     *)
(***************************************************************************)
\* LinkedHashMap (wg-collections): an insertion-ordered map, here from long
\* file name to fingerprint, kept as the sequence of its values
LinkedHashMap_get(map, key) ==
  IF \E i \in DOMAIN map : map[i].longFilename = key
  THEN map[CHOOSE i \in DOMAIN map : map[i].longFilename = key]
  ELSE NoFingerprint

LinkedHashMap_add(map, key, value) ==
  IF \E i \in DOMAIN map : map[i].longFilename = key
  THEN [i \in DOMAIN map |-> IF map[i].longFilename = key THEN value ELSE map[i]]
  ELSE Append(map, value)

LinkedHashMap_remove(map, key) ==
  SelectSeq(map, LAMBDA f : f.longFilename # key)

LinkedHashMap_firstKey(map) == map[1].longFilename

\* the number of fingerprints to preload, and the size the cache is cut to
preLoadCount == 1000
cacheLimit == 1100

\* `that._fingerprintsCache.length > 1100`: length is a method of LinkedHashMap
\* (tests/helpers.js calls _fingerprints.length()), and the scanner compares
\* the method itself, not its result, with the number: the comparison of a
\* function with a number is false whatever the map holds.
FingerprintsCacheIsOver(map) == FALSE /\ Len(map) > cacheLimit

\* the loop `while (length > 1100) remove(firstKey())`
RECURSIVE FingerprintsCacheEvict(_)
FingerprintsCacheEvict(map) ==
  IF FingerprintsCacheIsOver(map)
  THEN FingerprintsCacheEvict(LinkedHashMap_remove(map, LinkedHashMap_firstKey(map)))
  ELSE map

\* the loop over the preloaded fingerprints: they are added one by one, in
\* order, the cache being cut after each; adding those of a sequence is adding
\* those of its first half, then those of its second half (the halves keep the
\* evaluation shallow; the test on `first` makes it be computed before the
\* second half is entered)
RECURSIVE FingerprintsCacheAddAll(_, _)
FingerprintsCacheAddAll(map, fingerprints) ==
  IF fingerprints = <<>> THEN map
  ELSE IF Len(fingerprints) = 1
  THEN FingerprintsCacheEvict(
         LinkedHashMap_add(map, fingerprints[1].longFilename, fingerprints[1]))
  ELSE LET half == Len(fingerprints) \div 2
           first == FingerprintsCacheAddAll(map, SubSeq(fingerprints, 1, half))
       IN IF Len(first) >= 0
          THEN FingerprintsCacheAddAll(first,
                 SubSeq(fingerprints, half + 1, Len(fingerprints)))
          ELSE first

\* FingerprintsScanner.getFingerPrint
FingerprintsScanner_getFingerPrint(s, longFilename) ==
  LET fingerprint == LinkedHashMap_get(s.forward.fingerprintsCache, longFilename)
  IN IF IsFingerprint(fingerprint)
     THEN [Callback(s, NoError) EXCEPT !.fingerprint = fingerprint]
     ELSE Outstanding(s, "FingerprintsScanner_getFingerPrint_preLoadFingerprints",
                      longFilename)

\* a variant of the callback below: the fingerprint is looked up in the cache
\* as it was before the preloaded fingerprints were added
FingerprintsScanner_getFingerPrint_preLoadFingerprints_early(s, err, fingerprints) ==
  IF err # NoError THEN Callback(s, err)
  ELSE LET cache == FingerprintsCacheAddAll(s.forward.fingerprintsCache, fingerprints)
       IN [Callback([s EXCEPT !.forward.fingerprintsCache = cache], NoError)
           EXCEPT !.fingerprint = LinkedHashMap_get(s.forward.fingerprintsCache, s.arg)]

\* a variant of the callback below: once the preloaded fingerprints are
\* added, the oldest entry of the cache is removed
FingerprintsScanner_getFingerPrint_preLoadFingerprints_cut(s, err, fingerprints) ==
  IF err # NoError THEN Callback(s, err)
  ELSE LET added == FingerprintsCacheAddAll(s.forward.fingerprintsCache, fingerprints)
           cache == IF added = <<>> THEN added
                    ELSE LinkedHashMap_remove(added, LinkedHashMap_firstKey(added))
       IN [Callback([s EXCEPT !.forward.fingerprintsCache = cache], NoError)
           EXCEPT !.fingerprint = LinkedHashMap_get(cache, s.arg)]

\* the callback of preLoadFingerprints in getFingerPrint; s.arg is longFilename
FingerprintsScanner_getFingerPrint_preLoadFingerprints(s, err, fingerprints) ==
  IF err # NoError THEN Callback(s, err)
  ELSE LET cache == FingerprintsCacheAddAll(s.forward.fingerprintsCache, fingerprints)
       IN [Callback([s EXCEPT !.forward.fingerprintsCache = cache], NoError)
           EXCEPT !.fingerprint = LinkedHashMap_get(cache, s.arg)]

FingerprintsScanner_logProgress(s) ==
  Log(s, "forwardScanProgress",
      <<s.forward.totalScanned, s.forward.totalProcessed,
        s.forward.totalInserted, s.forward.totalUpdated>>)

\* a variant of the callback below: the last progress of the pass is notified
\* after the end of the pass
FingerprintsScanner_scan_processNext_late(s, err) ==
  IF err # NoError THEN scan_FingerprintsScanner_scan(s, err, ZeroStats)
  ELSE scan_FingerprintsScanner_scan(
         FingerprintsScanner_logProgress(Log(s, "forwardScanEnded", <<>>)),
         NoError,
         [scanned |-> s.forward.totalScanned,
          processed |-> s.forward.totalProcessed,
          errors |-> s.forward.totalErrors])

\* the callback FingerprintsScanner.scan gives to _processNext
FingerprintsScanner_scan_processNext(s, err) ==
  IF err # NoError THEN scan_FingerprintsScanner_scan(s, err, ZeroStats)
  ELSE scan_FingerprintsScanner_scan(
         Log(FingerprintsScanner_logProgress(s), "forwardScanEnded", <<>>),
         NoError,
         [scanned |-> s.forward.totalScanned,
          processed |-> s.forward.totalProcessed,
          errors |-> s.forward.totalErrors])

RECURSIVE FingerprintsScanner_processNext(_)

\* a variant of _createFingerprint: the next file is asked for without waiting
\* for the callback of insertFingerprint
FingerprintsScanner_createFingerprint_unawaited(s, fingerprint) ==
  LET r == Outstanding([s EXCEPT !.loc.fingerprint = fingerprint],
                       "FingerprintsScanner_createFingerprint_insertFingerprint", <<>>)
  IN [r EXCEPT !.st = FingerprintsScanner_processNext(r.st)]

\* FingerprintsScanner._createFingerprint
FingerprintsScanner_createFingerprint(s, fingerprint) ==
  Outstanding([s EXCEPT !.loc.fingerprint = fingerprint],
              "FingerprintsScanner_createFingerprint_insertFingerprint", <<>>)

\* FingerprintsScanner._updateFingerprint
FingerprintsScanner_updateFingerprint(s, fingerprint) ==
  Outstanding([s EXCEPT !.loc.fingerprint = fingerprint],
              "FingerprintsScanner_updateFingerprint_updateFingerprint", <<>>)

\* a variant of the callback of utils.md5 for a file without fingerprint:
\* the new fingerprint has no owner
FingerprintsScanner_processNext_md5_create_unowned(s, err, md5) ==
  IF err # NoError THEN FingerprintsScanner_scan_processNext(s, err)
  ELSE FingerprintsScanner_createFingerprint(s,
         [shortFilename |-> s.loc.shortFilename,
          longFilename |-> s.loc.longFilename,
          mtime |-> s.loc.stats.mtime,
          size |-> s.loc.stats.size,
          md5 |-> md5,
          uuid |-> UndefinedUuid,
          vanishedAt |-> Null,
          hidden |-> FALSE,
          ownerId |-> ""]).st

\* the callback of utils.md5 for a file without fingerprint
\* a variant of the callback below: the fingerprint is created whether md5
\* failed or not
FingerprintsScanner_processNext_md5_create_unchecked(s, err, md5) ==
  FingerprintsScanner_createFingerprint(s,
    [shortFilename |-> s.loc.shortFilename,
     longFilename |-> s.loc.longFilename,
     mtime |-> s.loc.stats.mtime,
     size |-> s.loc.stats.size,
     md5 |-> md5,
     uuid |-> UndefinedUuid,
     vanishedAt |-> Null,
     hidden |-> FALSE,
     ownerId |-> NobodyId]).st

FingerprintsScanner_processNext_md5_create(s, err, md5) ==
  IF err # NoError THEN FingerprintsScanner_scan_processNext(s, err)
  ELSE FingerprintsScanner_createFingerprint(s,
         [shortFilename |-> s.loc.shortFilename,
          longFilename |-> s.loc.longFilename,
          mtime |-> s.loc.stats.mtime,
          size |-> s.loc.stats.size,
          md5 |-> md5,
          uuid |-> UndefinedUuid,
          vanishedAt |-> Null,
          hidden |-> FALSE,
          ownerId |-> NobodyId]).st

\* a variant of the callback _processNext gives to _createFingerprint: it
\* calls the callback of the pass instead of going on with the next file
FingerprintsScanner_processNext_createFingerprint_ends(s, err) ==
  IF err # NoError THEN FingerprintsScanner_scan_processNext(s, err)
  ELSE FingerprintsScanner_scan_processNext(
         [s EXCEPT !.forward.totalProcessed = @ + 1,
                   !.forward.totalInserted = @ + 1],
         NoError)

\* the callback _processNext gives to _createFingerprint
FingerprintsScanner_processNext_createFingerprint(s, err) ==
  IF err # NoError THEN FingerprintsScanner_scan_processNext(s, err)
  ELSE FingerprintsScanner_processNext(
         [s EXCEPT !.forward.totalProcessed = @ + 1,
                   !.forward.totalInserted = @ + 1])

\* a variant of the callback of utils.md5 for a changed file: the digest is
\* dropped, the fingerprint is updated with the digest it had
FingerprintsScanner_processNext_md5_update_stale(s, err, md5) ==
  IF err # NoError THEN FingerprintsScanner_scan_processNext(s, err)
  ELSE FingerprintsScanner_updateFingerprint(s, s.loc.fingerprint).st

\* a variant of the callback of utils.md5 for a changed file: the fingerprint
\* given to the update is a new object, made without the uuid
FingerprintsScanner_processNext_md5_update_anonymous(s, err, md5) ==
  IF err # NoError THEN FingerprintsScanner_scan_processNext(s, err)
  ELSE LET fingerprint == [s.loc.fingerprint EXCEPT !.md5 = md5, !.uuid = UndefinedUuid]
       IN FingerprintsScanner_updateFingerprint(
            [s EXCEPT !.forward.fingerprintsCache =
               LinkedHashMap_add(@, fingerprint.longFilename, fingerprint)],
            fingerprint).st

\* the callback of utils.md5 for a changed file; the fingerprint is the
\* object the cache holds
FingerprintsScanner_processNext_md5_update(s, err, md5) ==
  IF err # NoError THEN FingerprintsScanner_scan_processNext(s, err)
  ELSE LET fingerprint == [s.loc.fingerprint EXCEPT !.md5 = md5]
       IN FingerprintsScanner_updateFingerprint(
            [s EXCEPT !.forward.fingerprintsCache =
               LinkedHashMap_add(@, fingerprint.longFilename, fingerprint)],
            fingerprint).st

\* a variant of the callback below: the update is not counted as an update
FingerprintsScanner_processNext_updateFingerprint_uncounted(s, err) ==
  IF err # NoError THEN FingerprintsScanner_scan_processNext(s, err)
  ELSE FingerprintsScanner_processNext(
         [s EXCEPT !.forward.totalProcessed = @ + 1])

\* the callback _processNext gives to _updateFingerprint
FingerprintsScanner_processNext_updateFingerprint(s, err) ==
  IF err # NoError THEN FingerprintsScanner_scan_processNext(s, err)
  ELSE FingerprintsScanner_processNext(
         [s EXCEPT !.forward.totalProcessed = @ + 1,
                   !.forward.totalUpdated = @ + 1])

\* a variant of the test below: a fingerprint is up to date only when the file
\* is strictly older
FingerprintIsUpToDate_strict(force, stats, fingerprint) ==
  ~force /\ stats.mtime < fingerprint.mtime

\* a variant of the test below: the force option is not looked at
FingerprintIsUpToDate_unforced(force, stats, fingerprint) ==
  stats.mtime <= fingerprint.mtime

\* the test of _processNext that tells that the fingerprint needs no update:
\* !force && stats.mtime <= fingerprint.mtime
FingerprintIsUpToDate(force, stats, fingerprint) ==
  ~force /\ stats.mtime <= fingerprint.mtime

\* the callback _processNext gives to getFingerPrint; the closure's variables
\* are s.loc.longFilename, s.loc.shortFilename, s.loc.stats
\* a variant of the callback below: a fingerprint is created whether the file
\* has one or not
FingerprintsScanner_processNext_getFingerPrint_creating(s, err, fingerprint) ==
  IF err # NoError THEN FingerprintsScanner_scan_processNext(s, err)
  ELSE LET t == FingerprintsScanner_logProgress(
                  [s EXCEPT !.forward.totalScanned = @ + 1])
       IN Outstanding(t, "FingerprintsScanner_processNext_md5_create",
                      t.loc.longFilename).st

FingerprintsScanner_processNext_getFingerPrint(s, err, fingerprint) ==
  IF err # NoError THEN FingerprintsScanner_scan_processNext(s, err)
  ELSE LET t == FingerprintsScanner_logProgress(
                  [s EXCEPT !.forward.totalScanned = @ + 1])
           force == t.scanOptions.force
           stats == t.loc.stats
       IN IF ~IsFingerprint(fingerprint)
          THEN Outstanding(t, "FingerprintsScanner_processNext_md5_create",
                           t.loc.longFilename).st
          ELSE IF FingerprintIsUpToDate(force, stats, fingerprint)
          THEN FingerprintsScanner_processNext(t)
          ELSE LET touched == [fingerprint EXCEPT !.mtime = stats.mtime]
               IN Outstanding(
                    [t EXCEPT !.loc.fingerprint = touched,
                              !.forward.fingerprintsCache =
                                 LinkedHashMap_add(@, touched.longFilename, touched)],
                    "FingerprintsScanner_processNext_md5_update",
                    touched.longFilename).st

\* the callback _processNext gives to scope.nextFile
FingerprintsScanner_processNext_nextFile(r) ==
  IF r.err # NoError THEN FingerprintsScanner_scan_processNext(r.st, r.err)
  ELSE IF r.longFilename = Undefined THEN FingerprintsScanner_scan_processNext(r.st, NoError)
  ELSE IF IsNullStats(r.stats) \/ ~isFile(r.stats) THEN FingerprintsScanner_processNext(r.st)
  ELSE LET s == [r.st EXCEPT !.loc = [NoLocals EXCEPT !.longFilename = r.longFilename,
                                                      !.shortFilename = r.shortFilename,
                                                      !.stats = r.stats]]
           g == FingerprintsScanner_getFingerPrint(s, r.longFilename)
       IN IF g.called
          THEN FingerprintsScanner_processNext_getFingerPrint(g.st, g.err, g.fingerprint)
          ELSE g.st

\* FingerprintsScanner._processNext
FingerprintsScanner_processNext(s) ==
  LET r == Scope_nextFile(s)
  IN IF r.called THEN FingerprintsScanner_processNext_nextFile(r) ELSE r.st

\* FingerprintsScanner.scan
FingerprintsScanner_scan(s) ==
  LET t == Log([s EXCEPT !.forward.totalScanned = 0, !.forward.totalProcessed = 0,
                         !.forward.totalErrors = 0, !.forward.totalInserted = 0,
                         !.forward.totalUpdated = 0],
               "forwardScanStarted", <<>>)
      r == Scope_startScan(t)
  IN IF r.err # NoError THEN scan_FingerprintsScanner_scan(r.st, r.err, ZeroStats)
     ELSE FingerprintsScanner_processNext(r.st)

(***************************************************************************)
(* scan(storageDelegate, progressDelegate, scope, handlers, scanOptions)   *)
(***************************************************************************)
scan(s, handlers, scanOptions) ==
  FingerprintsScanner_scan(
    Log([s EXCEPT !.handlers = handlers, !.scanOptions = scanOptions,
                  !.cumulatedStats = [forward |-> ZeroStats, reverse |-> ZeroStats],
                  !.forward = NewFingerprintsScanner,
                  !.err = NoError, !.callbacks = 0, !.result = NoStatistics,
                  !.trace = <<>>],
        "scanStarted", <<>>))

(***************************************************************************)
(* The initial state: an empty storage, a small file system, and for each  *)
(* caller the scope and the handlers it scans with.                        *)
(***************************************************************************)
Root == <<"/", "r">>
FileA == <<"/", "r", "/", "a", ".", "p">>
FileB == <<"/", "r", "/", "b", ".", "p">>

File(content, mtime) ==
  [kind |-> "file", size |-> Len(content), mtime |-> mtime, content |-> content]

Directory == [kind |-> "dir", size |-> 4096, mtime |-> 1, content |-> <<>>]

InitialFs == (Root :> Directory) @@ (FileA :> File(<<1>>, 1)) @@ (FileB :> File(<<1>>, 1))

\* what the environment may write into a file
Contents == {<<>>, <<1>>, <<2, 2>>}

Scopes ==
  {NewFilesScope(<<FileA, FileB>>),
   NewDirectoryScope(Root, <<>>, <<>>, 0, 0)}

\* the handlers of the caller, by name; what a handler does is the environment's
HandlerLists == {<<>>, <<"H1", "H2">>}

\* a larger tree: a sub-directory, names in both cases, files of 1, 2 and 3 bytes
SubDir == <<"/", "r", "/", "d">>
FileD == <<"/", "r", "/", "d", "/", "a", ".", "p">>
FileT == <<"/", "r", "/", "p", ".", "t">>
FileBig == <<"/", "r", "/", "B", ".", "p">>

TreeFs ==
  (Root :> Directory) @@ (FileA :> File(<<1>>, 1)) @@ (FileB :> File(<<2, 2>>, 1))
  @@ (FileBig :> File(<<2, 2, 2>>, 1)) @@ (SubDir :> Directory)
  @@ (FileD :> File(<<2, 2>>, 1)) @@ (FileT :> File(<<2, 2>>, 1))
  @@ (<<"/", "r", "/", "l">> :> [Directory EXCEPT !.kind = "symlink", !.size = 2])
  @@ (<<"/", "r", "/", "l", "/", "a", ".", "p">> :> File(<<2, 2>>, 1))

\* the scopes scanned on the tree: the whole tree; the tree without the
\* directory "d", its *.p files of 2 bytes only; the tree without the *.t
\* files; the *.p files of the tree but those named b.p; a list that names
\* a file twice; a list of one file.  The tree has a symbolic link "l" to a
\* directory that holds a file a.p
TreeScopes ==
  {NewDirectoryScope(Root, <<>>, <<>>, 0, 0),
   NewDirectoryScope(Root, << <<"D">> >>, << <<"*", ".", "P">> >>, 2, 2),
   NewDirectoryScope(Root, << <<"*", ".", "t">> >>, <<>>, 0, 0),
   NewDirectoryScope(Root, << <<"b", ".", "p">> >>, << <<"*", ".", "p">> >>, 0, 0),
   NewFilesScope(<<FileA, FileA>>),
   NewFilesScope(<<FileA>>)}

\* one caller that may call scan() `scans` times
InitCallers(scopes, handlerLists, scans) ==
  sc \in [{1} -> {[NewCaller(scope, handlers) EXCEPT !.scans = scans] :
                     scope \in scopes, handlers \in handlerLists}]

\* a reliable environment: no operation fails but the handlers of the caller
Init ==
  /\ InitCallers(Scopes, HandlerLists, MaxScans)
  /\ fs = InitialFs
  /\ store = <<>>
  /\ now = 0
  /\ faults = 0
  /\ changes = MaxChanges

\* an environment that injects failures of the file system, of the storage
\* and of md5; one more scope is scanned, a list that names the folder
InitFaults ==
  /\ \/ InitCallers(Scopes, {<<>>, <<"H1">>}, MaxScans - 1)
     \/ InitCallers({NewFilesScope(<<Root, FileA>>)}, {<<>>}, MaxScans - 1)
  /\ fs = InitialFs
  /\ store = <<>>
  /\ now = 0
  /\ faults = MaxFaults
  /\ changes = MaxChanges - 1

\* a reliable environment, scans of the tree; the caller of the list that
\* names a file twice may have a handler
InitScopes ==
  /\ \/ InitCallers(TreeScopes, {<<>>}, MaxScans - 1)
     \/ InitCallers({NewFilesScope(<<FileA, FileA>>)}, {<<"H1">>}, MaxScans - 1)
  /\ fs = TreeFs
  /\ store = <<>>
  /\ now = 0
  /\ faults = 0
  /\ changes = MaxChanges - 1

\* a storage that holds many fingerprints: MaxStored fingerprints, the k-th
\* in the order of the long file names being that of the file NameOf(k)
MaxStored == 1101

Digits == <<"A", "B", "a", "b", "d", "p", "r", "t">>

NameOf(k) ==
  <<"/", "r", "/", Digits[((k \div 4096) % 8) + 1],
    Digits[((k \div 512) % 8) + 1], Digits[((k \div 64) % 8) + 1],
    Digits[((k \div 8) % 8) + 1], Digits[(k % 8) + 1], ".", "p">>

StoredFingerprint(k) ==
  [NoFingerprint EXCEPT !.uuid = k, !.longFilename = NameOf(k),
                        !.shortFilename = getShortFilename(NameOf(k)),
                        !.mtime = 1, !.size = 1, !.md5 = Md5Of(<<1>>),
                        !.ownerId = NobodyId]

\* a forward scanner before its first file, on the storage of many fingerprints
InitCache ==
  /\ sc = [i \in {1} |-> NewCaller(NewFilesScope(<<>>), <<>>)]
  /\ fs = InitialFs
  /\ store = [k \in 1..MaxStored |-> StoredFingerprint(k)]
  /\ now = 0
  /\ faults = 0
  /\ changes = 0

(***************************************************************************)
(* The actions.                                                            *)
(***************************************************************************)
MayFail == faults > 0

Injected(err) == err \in {"EACCES", "EIO", "STORE", "MD5"}

\* the caller's objects after an operation completed with the outcome err,
\* that may be a failure injected by the environment, and its callback ran:
\* the operations the callback started are outstanding, the completed one is
\* not any more
Resume(i, t, err) ==
  /\ sc' = [sc EXCEPT ![i] = [t EXCEPT !.outstanding = @ - 1,
                                       !.hist.faulted = @ \/ Injected(err),
                                       !.hist.fault = IF Injected(err) THEN err ELSE @]]
  /\ faults' = IF Injected(err) THEN faults - 1 ELSE faults

\* the outcomes of a call of the storage delegate that returns `value`
StoreOutcomes(values) ==
  {[err |-> NoError, value |-> v] : v \in values}
  \cup (IF MayFail THEN {[err |-> "STORE", value |-> <<>>]} ELSE {})

\* scan() is called
Scan(i) ==
  /\ sc[i].pc = "idle"
  /\ sc[i].scans > 0
  /\ \E force \in BOOLEAN :
       sc' = [sc EXCEPT ![i] =
                scan([sc[i] EXCEPT !.scans = @ - 1,
                                   !.hist = [NoHistory EXCEPT
                                               !.rescan = sc[i].hist.rescan,
                                               !.aborted = sc[i].hist.aborted,
                                               !.storeAtStart = store]],
                     sc[i].handlers, [force |-> force])]
  /\ now' = now + 1
  /\ UNCHANGED <<fs, store, faults, changes>>

\* scan()'s callback has returned: the scanners and the closures are gone,
\* the scope object stays with the caller
ScanReturn(i) ==
  /\ sc[i].pc \in {"done", "failed"}
  /\ sc' = [sc EXCEPT ![i] =
              [NewCaller(sc[i].scope, sc[i].handlers) EXCEPT
                 !.scans = sc[i].scans,
                 !.hist = [NoHistory EXCEPT
                             !.rescan = sc[i].pc = "done" /\ ~sc[i].hist.faulted,
                             !.aborted = sc[i].pc = "failed"]]]
  /\ UNCHANGED <<fs, store, now, faults, changes>>

\* fs.lstat calls back FilesScope.nextFile
FilesScope_nextFile_lstat_done(i) ==
  /\ sc[i].pc = "FilesScope_nextFile_lstat"
  /\ \E o \in LstatOutcomes(fs, sc[i].arg, MayFail) :
       LET r == FilesScope_nextFile_lstat(sc[i], o)
       IN Resume(i, IF r.called THEN FingerprintsScanner_processNext_nextFile(r) ELSE r.st,
                 o.err)
  /\ UNCHANGED <<fs, store, now, changes>>

\* fs.lstat calls back DirectoryScope.nextFile
DirectoryScope_nextFile_lstat_done(i) ==
  /\ sc[i].pc = "DirectoryScope_nextFile_lstat"
  /\ \E o \in LstatOutcomes(fs, sc[i].arg, MayFail) :
       LET r == DirectoryScope_nextFile_lstat(sc[i], o)
       IN Resume(i, IF r.called THEN FingerprintsScanner_processNext_nextFile(r) ELSE r.st,
                 o.err)
  /\ UNCHANGED <<fs, store, now, changes>>

\* fs.readdir calls back DirectoryScope.nextFile
DirectoryScope_nextFile_readdir_done(i) ==
  /\ sc[i].pc = "DirectoryScope_nextFile_readdir"
  /\ \E o \in ReaddirOutcomes(fs, sc[i].arg, MayFail) :
       LET r == DirectoryScope_nextFile_readdir(sc[i], o)
       IN Resume(i, IF r.called THEN FingerprintsScanner_processNext_nextFile(r) ELSE r.st,
                 o.err)
  /\ UNCHANGED <<fs, store, now, changes>>

\* preLoadFingerprints calls back FingerprintsScanner.getFingerPrint
FingerprintsScanner_getFingerPrint_preLoadFingerprints_done(i) ==
  /\ sc[i].pc = "FingerprintsScanner_getFingerPrint_preLoadFingerprints"
  /\ \E o \in StoreOutcomes(Store_preLoadFingerprints(store, sc[i].arg, preLoadCount)) :
       LET r == FingerprintsScanner_getFingerPrint_preLoadFingerprints(sc[i], o.err, o.value)
       IN Resume(i, FingerprintsScanner_processNext_getFingerPrint(r.st, r.err, r.fingerprint),
                 o.err)
  /\ UNCHANGED <<fs, store, now, changes>>

\* utils.md5 calls back FingerprintsScanner._processNext (file without fingerprint)
FingerprintsScanner_processNext_md5_create_done(i) ==
  /\ sc[i].pc = "FingerprintsScanner_processNext_md5_create"
  /\ \E o \in Md5Outcomes(fs, sc[i].arg, MayFail) :
       Resume(i, FingerprintsScanner_processNext_md5_create(sc[i], o.err, o.md5),
              o.err)
  /\ UNCHANGED <<fs, store, now, changes>>

\* utils.md5 calls back FingerprintsScanner._processNext (changed file)
FingerprintsScanner_processNext_md5_update_done(i) ==
  /\ sc[i].pc = "FingerprintsScanner_processNext_md5_update"
  /\ \E o \in Md5Outcomes(fs, sc[i].arg, MayFail) :
       Resume(i, FingerprintsScanner_processNext_md5_update(sc[i], o.err, o.md5),
              o.err)
  /\ UNCHANGED <<fs, store, now, changes>>

\* insertFingerprint calls back FingerprintsScanner._createFingerprint
FingerprintsScanner_createFingerprint_insertFingerprint_done(i) ==
  /\ sc[i].pc = "FingerprintsScanner_createFingerprint_insertFingerprint"
  /\ \E o \in StoreOutcomes({<<>>}) :
       /\ store' = IF o.err = NoError
                   THEN Store_insertFingerprint(store, sc[i].loc.fingerprint) ELSE store
       /\ Resume(i, FingerprintsScanner_processNext_createFingerprint(
                      [sc[i] EXCEPT !.hist.inserted =
                         IF o.err = NoError THEN @ \cup {Len(store) + 1} ELSE @],
                      o.err),
                 o.err)
  /\ UNCHANGED <<fs, now, changes>>

\* updateFingerprint calls back FingerprintsScanner._updateFingerprint
FingerprintsScanner_updateFingerprint_updateFingerprint_done(i) ==
  /\ sc[i].pc = "FingerprintsScanner_updateFingerprint_updateFingerprint"
  /\ \E o \in StoreOutcomes({<<>>}) :
       /\ store' = IF o.err = NoError
                   THEN Store_updateFingerprint(store, sc[i].loc.fingerprint) ELSE store
       /\ Resume(i, FingerprintsScanner_processNext_updateFingerprint(
                      [sc[i] EXCEPT !.hist.updated =
                         IF o.err = NoError THEN @ \cup {sc[i].loc.fingerprint.uuid} ELSE @],
                      o.err),
                 o.err)
  /\ UNCHANGED <<fs, now, changes>>

\* countFingerPrints calls back DirectoryScope.startReverseScan
DirectoryScope_startReverseScan_countFingerPrints_done(i) ==
  /\ sc[i].pc = "DirectoryScope_startReverseScan_countFingerPrints"
  /\ \E o \in StoreOutcomes({Store_countFingerPrints(store, sc[i].arg)}) :
       LET r == DirectoryScope_startReverseScan_countFingerPrints(
                  sc[i], o.err, IF o.err = NoError THEN o.value ELSE UndefinedCount)
       IN Resume(i, IF r.called THEN ReverseScanner_scan_startReverseScan(r.st, r.err, r.count)
                    ELSE r.st,
                 o.err)
  /\ UNCHANGED <<fs, store, now, changes>>

\* getFingerPrints calls back DirectoryScope._reverseScanNextBatch
DirectoryScope_reverseScanNextBatch_getFingerPrints_done(i) ==
  /\ sc[i].pc = "DirectoryScope_reverseScanNextBatch_getFingerPrints"
  /\ \E o \in StoreOutcomes({Store_getFingerPrints(store, sc[i].arg, sc[i].scope.offset, limit)}) :
       LET r == DirectoryScope_reverseScanNextBatch_getFingerPrints(sc[i], o.err, o.value)
       IN Resume(i, IF r.called THEN ReverseScanner_processNext_nextFingerprint(r) ELSE r.st,
                 o.err)
  /\ UNCHANGED <<fs, store, now, changes>>

\* fs.lstat calls back DirectoryScope.nextFingerprint
DirectoryScope_nextFingerprint_lstat_done(i) ==
  /\ sc[i].pc = "DirectoryScope_nextFingerprint_lstat"
  /\ \E o \in LstatOutcomes(fs, sc[i].arg, MayFail) :
       LET r == DirectoryScope_nextFingerprint_lstat(sc[i], o)
       IN Resume(i, IF r.called THEN ReverseScanner_processNext_nextFingerprint(r) ELSE r.st,
                 o.err)
  /\ UNCHANGED <<fs, store, now, changes>>

\* getFingerPrint calls back FilesScope.nextFingerprint
FilesScope_nextFingerprint_getFingerPrint_done(i) ==
  /\ sc[i].pc = "FilesScope_nextFingerprint_getFingerPrint"
  /\ \E o \in StoreOutcomes({Store_getFingerPrint(store, sc[i].arg)}) :
       LET r == FilesScope_nextFingerprint_getFingerPrint(
                  sc[i], o.err, IF o.err = NoError THEN o.value ELSE NoFingerprint)
       IN Resume(i, IF r.called THEN ReverseScanner_processNext_nextFingerprint(r) ELSE r.st,
                 o.err)
  /\ UNCHANGED <<fs, store, now, changes>>

\* fs.lstat calls back FilesScope.nextFingerprint
FilesScope_nextFingerprint_lstat_done(i) ==
  /\ sc[i].pc = "FilesScope_nextFingerprint_lstat"
  /\ \E o \in LstatOutcomes(fs, sc[i].arg, MayFail) :
       LET r == FilesScope_nextFingerprint_lstat(sc[i], o)
       IN Resume(i, IF r.called THEN ReverseScanner_processNext_nextFingerprint(r) ELSE r.st,
                 o.err)
  /\ UNCHANGED <<fs, store, now, changes>>

\* updateFingerprint calls back VanishedFilesHandler.processNext
VanishedFilesHandler_processNext_updateFingerprint_done(i) ==
  /\ sc[i].pc = "VanishedFilesHandler_processNext_updateFingerprint"
  /\ \E o \in StoreOutcomes({<<>>}) :
       LET r == VanishedFilesHandler_processNext_updateFingerprint(sc[i], o.err)
       IN /\ store' = IF o.err = NoError
                      THEN Store_updateFingerprint(store, sc[i].loc.newFingerPrint)
                      ELSE store
          /\ Resume(i, ReverseScanner_processNextHandler_processNext(
                         r.st, "VanishedFilesHandler", r.err, r.wasProcessed),
                    o.err)
  /\ UNCHANGED <<fs, now, changes>>

\* what a handler of the caller may call back with: an error, or whether it
\* processed the fingerprint
HandlerOutcomes ==
  {[err |-> "HANDLER", wasProcessed |-> FALSE],
   [err |-> NoError, wasProcessed |-> TRUE],
   [err |-> NoError, wasProcessed |-> FALSE]}

\* a handler of the caller calls back ReverseScanner._processNextHandler
ReverseScanHandler_processNext_done(i) ==
  /\ sc[i].pc = "ReverseScanHandler_processNext"
  /\ \E o \in HandlerOutcomes :
       Resume(i, ReverseScanner_processNextHandler_processNext(
                   sc[i], sc[i].arg, o.err, o.wasProcessed),
              NoError)
  /\ UNCHANGED <<fs, store, now, changes>>

\* The environment changes the file system, between scans: a file is written
\* (created, modified or touched) or removed.
NoScanRuns == \A i \in DOMAIN sc : sc[i].pc = "idle"

Changed == [i \in DOMAIN sc |-> [sc[i] EXCEPT !.hist.rescan = FALSE]]

WriteFile ==
  /\ NoScanRuns
  /\ changes > 0
  /\ \E p \in {q \in DOMAIN fs : fs[q].kind \in {"file", "absent"}},
        content \in Contents, mtime \in 1..MaxTime :
       /\ fs[p] # File(content, mtime)
       /\ fs' = [fs EXCEPT ![p] = File(content, mtime)]
  /\ changes' = changes - 1
  /\ sc' = Changed
  /\ UNCHANGED <<store, now, faults>>

RemoveFile ==
  /\ NoScanRuns
  /\ changes > 0
  /\ \E p \in {q \in DOMAIN fs : fs[q].kind = "file"} :
       fs' = [fs EXCEPT ![p] = Absent]
  /\ changes' = changes - 1
  /\ sc' = Changed
  /\ UNCHANGED <<store, now, faults>>

Next ==
  \/ \E i \in DOMAIN sc : Scan(i)
  \/ \E i \in DOMAIN sc : ScanReturn(i)
  \/ \E i \in DOMAIN sc : FilesScope_nextFile_lstat_done(i)
  \/ \E i \in DOMAIN sc : DirectoryScope_nextFile_lstat_done(i)
  \/ \E i \in DOMAIN sc : DirectoryScope_nextFile_readdir_done(i)
  \/ \E i \in DOMAIN sc : FingerprintsScanner_getFingerPrint_preLoadFingerprints_done(i)
  \/ \E i \in DOMAIN sc : FingerprintsScanner_processNext_md5_create_done(i)
  \/ \E i \in DOMAIN sc : FingerprintsScanner_processNext_md5_update_done(i)
  \/ \E i \in DOMAIN sc : FingerprintsScanner_createFingerprint_insertFingerprint_done(i)
  \/ \E i \in DOMAIN sc : FingerprintsScanner_updateFingerprint_updateFingerprint_done(i)
  \/ \E i \in DOMAIN sc : DirectoryScope_startReverseScan_countFingerPrints_done(i)
  \/ \E i \in DOMAIN sc : DirectoryScope_reverseScanNextBatch_getFingerPrints_done(i)
  \/ \E i \in DOMAIN sc : DirectoryScope_nextFingerprint_lstat_done(i)
  \/ \E i \in DOMAIN sc : FilesScope_nextFingerprint_getFingerPrint_done(i)
  \/ \E i \in DOMAIN sc : FilesScope_nextFingerprint_lstat_done(i)
  \/ \E i \in DOMAIN sc : VanishedFilesHandler_processNext_updateFingerprint_done(i)
  \/ \E i \in DOMAIN sc : ReverseScanHandler_processNext_done(i)
  \/ WriteFile
  \/ RemoveFile

Spec == Init /\ [][Next]_vars

SpecFaults == InitFaults /\ [][Next]_vars

SpecScopes == InitScopes /\ [][Next]_vars

(***************************************************************************)
(* The read-ahead cache alone: getFingerPrint is called for files whose    *)
(* fingerprints the storage holds, and the storage answers a preload with  *)
(* the fingerprints that follow, in the order of the long file names.      *)
(***************************************************************************)
\* the files getFingerPrint is called for, by their rank in the storage
RequestAt == {1, 2, 1001, 1002}

\* how many fingerprints the storage returns, when it has that many
PreLoadSizes == {1, 2, preLoadCount}

\* FingerprintsScanner.getFingerPrint is called: the fingerprint is in the
\* cache and the caller is given it, or preLoadFingerprints is called
GetFingerPrint(i) ==
  /\ sc[i].pc = "idle"
  /\ \E k \in RequestAt :
       LET r == FingerprintsScanner_getFingerPrint(sc[i], NameOf(k))
       IN sc' = [sc EXCEPT ![i] = [r.st EXCEPT !.loc.fingerprint = r.fingerprint]]
  /\ UNCHANGED <<fs, store, now, faults, changes>>

\* preLoadFingerprints calls back FingerprintsScanner.getFingerPrint, that
\* calls back its caller with the fingerprint
PreLoaded(i) ==
  /\ sc[i].pc = "FingerprintsScanner_getFingerPrint_preLoadFingerprints"
  /\ \E n \in PreLoadSizes :
       LET first == CHOOSE k \in DOMAIN store : store[k].longFilename = sc[i].arg
           last == Min(first + Min(n, preLoadCount) - 1, Len(store))
           r == FingerprintsScanner_getFingerPrint_preLoadFingerprints(
                  sc[i], NoError, SubSeq(store, first, last))
       IN sc' = [sc EXCEPT ![i] = [r.st EXCEPT !.pc = "idle", !.arg = <<>>,
                                               !.outstanding = @ - 1,
                                               !.loc.fingerprint = r.fingerprint]]
  /\ UNCHANGED <<fs, store, now, faults, changes>>

NextCache ==
  \/ \E i \in DOMAIN sc : GetFingerPrint(i)
  \/ \E i \in DOMAIN sc : PreLoaded(i)

SpecCache == InitCache /\ [][NextCache]_vars

(***************************************************************************)
(* The reverse pass of a directory scope alone, on a storage that holds    *)
(* about one batch of fingerprints, all of files that are gone and are     *)
(* marked so.                                                              *)
(***************************************************************************)
MaxPaged == 5001

\* the numbers of fingerprints of the storage: a few, one batch exactly, more
\* than one batch
PagedSizes == {2, limit, MaxPaged}

\* scan() has run the forward pass, that found no file, and has called
\* ReverseScanner.scan: countFingerPrints is outstanding
InitPages ==
  /\ \E n \in PagedSizes :
       store = [k \in 1..n |-> [StoredFingerprint(k) EXCEPT !.vanishedAt = 1]]
  /\ sc = [i \in {1} |->
             scan_FingerprintsScanner_scan(
               Log(Log(Log(NewCaller(NewDirectoryScope(Root, <<>>, <<>>, 0, 0), <<>>),
                           "scanStarted", <<>>),
                       "forwardScanStarted", <<>>),
                   "forwardScanEnded", <<>>),
               NoError, ZeroStats)]
  /\ fs = (Root :> Directory)
  /\ now = 2
  /\ faults = 0
  /\ changes = 0

NextPages ==
  \/ \E i \in DOMAIN sc : DirectoryScope_startReverseScan_countFingerPrints_done(i)
  \/ \E i \in DOMAIN sc : DirectoryScope_reverseScanNextBatch_getFingerPrints_done(i)
  \/ \E i \in DOMAIN sc : DirectoryScope_nextFingerprint_lstat_done(i)

SpecPages == InitPages /\ [][NextPages]_vars

\* two callers that scan the same directory on the same storage, each with
\* its own scope object and scanners: the whole directory, or the directory
\* without the entries whose name ends with "d".  Their operations complete
\* in any order.
InitShared ==
  /\ sc \in [{1, 2} ->
              {[NewCaller(scope, <<>>) EXCEPT !.scans = MaxScans - 2] :
                 scope \in {NewDirectoryScope(Root, <<>>, <<>>, 0, 0),
                            NewDirectoryScope(Root, << <<"*", "d">> >>, <<>>, 0, 0)}}]
  /\ fs = (Root :> Directory) @@ (SubDir :> Directory) @@ (FileD :> File(<<1>>, 1))
  /\ store = <<>>
  /\ now = 0
  /\ faults = 0
  /\ changes = 0

NextShared ==
  \/ \E i \in DOMAIN sc : Scan(i)
  \/ \E i \in DOMAIN sc : ScanReturn(i)
  \/ \E i \in DOMAIN sc : DirectoryScope_nextFile_lstat_done(i)
  \/ \E i \in DOMAIN sc : DirectoryScope_nextFile_readdir_done(i)
  \/ \E i \in DOMAIN sc : FingerprintsScanner_getFingerPrint_preLoadFingerprints_done(i)
  \/ \E i \in DOMAIN sc : FingerprintsScanner_processNext_md5_create_done(i)
  \/ \E i \in DOMAIN sc : FingerprintsScanner_processNext_md5_update_done(i)
  \/ \E i \in DOMAIN sc : FingerprintsScanner_createFingerprint_insertFingerprint_done(i)
  \/ \E i \in DOMAIN sc : FingerprintsScanner_updateFingerprint_updateFingerprint_done(i)
  \/ \E i \in DOMAIN sc : DirectoryScope_startReverseScan_countFingerPrints_done(i)
  \/ \E i \in DOMAIN sc : DirectoryScope_reverseScanNextBatch_getFingerPrints_done(i)
  \/ \E i \in DOMAIN sc : DirectoryScope_nextFingerprint_lstat_done(i)

SpecShared == InitShared /\ [][NextShared]_vars

(***************************************************************************)
(* What the properties below speak about: the files a scope yields on a    *)
(* file system, the calls recorded in a scan's trace.                      *)
(***************************************************************************)
\* the directories between folder (included) and the file p
Ancestors(folder, p) ==
  {SubSeq(p, 1, k) : k \in {n \in Len(folder)..(Len(p) - 1) : p[n + 1] = "/"}}

\* the forward iteration of the scope yields the file p of the file system
Yields(fsys, scope, p) ==
  /\ Exists(fsys, p)
  /\ isFile(StatsOf(fsys[p]))
  /\ IF scope.type = "files"
     THEN \E n \in DOMAIN scope.longFilenames : scope.longFilenames[n] = p
     ELSE /\ startsWith(p, scope.folder \o <<"/">>)
          /\ ~DirectoryScope_isExcluded(scope, p, getShortFilename(p), StatsOf(fsys[p]))
          /\ \A d \in Ancestors(scope.folder, p) :
               /\ Exists(fsys, d)
               /\ isDirectory(StatsOf(fsys[d]))
               /\ ~DirectoryScope_isExcluded(scope, d, getShortFilename(d), StatsOf(fsys[d]))

\* the number of files the forward iteration yields
NumberYielded(fsys, scope) ==
  IF scope.type = "files"
  THEN Cardinality({n \in DOMAIN scope.longFilenames :
                      Yields(fsys, scope, scope.longFilenames[n])})
  ELSE Cardinality({p \in DOMAIN fsys : Yields(fsys, scope, p)})

HasFingerprint(st, p) == \E k \in DOMAIN st : st[k].longFilename = p

\* the places of the events `evs` in a trace
Indexes(tr, evs) == {j \in DOMAIN tr : tr[j].ev \in evs}

CountEvents(tr, evs) == Cardinality(Indexes(tr, evs))

InsertCall == "FingerprintsScanner_createFingerprint_insertFingerprint"
UpdateCall == "FingerprintsScanner_updateFingerprint_updateFingerprint"
VanishedUpdateCall == "VanishedFilesHandler_processNext_updateFingerprint"

\* the storage calls of the forward pass that change the storage
ForwardMutations == {InsertCall, UpdateCall}

\* the start of the reverse pass and its storage calls
ReverseStarts ==
  {"reverseScanStarted",
   "FilesScope_nextFingerprint_getFingerPrint",
   "DirectoryScope_startReverseScan_countFingerPrints",
   "DirectoryScope_reverseScanNextBatch_getFingerPrints",
   VanishedUpdateCall}

\* a file of the forward pass is between the count of `scanned` and the end
\* of what the pass does with it
ForwardDecisionPending(s) ==
  s.pc \in {"FingerprintsScanner_processNext_md5_create",
            "FingerprintsScanner_processNext_md5_update", InsertCall, UpdateCall}

(***************************************************************************)
(* C1..C5: the forward pass                                                *)
(***************************************************************************)
\* C1: the two phases are strictly sequential.  Every insert or update call of
\* the forward pass precedes the reverseScanStarted notification and every
\* storage call of the reverse pass; when the reverse pass has started no
\* forward call is outstanding and every file the scope yields has its
\* fingerprint in the storage; and the fingerprints a completed scan inserted
\* were all delivered to its reverse pass.
C1_PhasesSequential ==
  \A i \in DOMAIN sc :
    LET s == sc[i]
        started == Indexes(s.trace, ReverseStarts)
    IN /\ \A j \in Indexes(s.trace, ForwardMutations), k \in started : j < k
       /\ started # {} =>
            /\ s.pc \notin ForwardMutations
            /\ ~ForwardDecisionPending(s)
            /\ \A p \in DOMAIN fs : Yields(fs, s.scope, p) => HasFingerprint(store, p)
       /\ s.pc = "done" => s.hist.inserted \subseteq s.hist.delivered

\* a scan that inserted two fingerprints has completed, and its reverse pass
\* queried the storage and was delivered both
C1_Witness ==
  \E i \in DOMAIN sc :
    /\ sc[i].pc = "done"
    /\ Cardinality(sc[i].hist.inserted) = 2
    /\ sc[i].hist.inserted \subseteq sc[i].hist.delivered
    /\ CountEvents(sc[i].trace, ForwardMutations) = 2
    /\ Indexes(sc[i].trace, ReverseStarts \ {"reverseScanStarted"}) # {}

\* C2: a scan that follows a completed scan, with force unset and the file
\* system unchanged, calls neither insert nor update, reports 0 processed
\* for the forward pass and leaves the storage as it was; and the forward
\* pass of every completed scan reports as scanned the number of files the
\* scope yields.
C2_Idempotent ==
  \A i \in DOMAIN sc :
    LET s == sc[i]
    IN /\ s.pc = "done" => s.cumulatedStats.forward.scanned = NumberYielded(fs, s.scope)
       /\ (s.pc # "idle" /\ s.hist.rescan /\ ~s.scanOptions.force) =>
            /\ store = s.hist.storeAtStart
            /\ s.forward.totalProcessed = 0
            /\ Indexes(s.trace, ForwardMutations) = {}
            /\ s.hist.inserted = {} /\ s.hist.updated = {}
            /\ s.pc = "done" => s.cumulatedStats.forward.processed = 0

\* the second scan of two files has completed without force
C2_Witness ==
  \E i \in DOMAIN sc :
    /\ sc[i].pc = "done"
    /\ sc[i].hist.rescan
    /\ ~sc[i].scanOptions.force
    /\ sc[i].cumulatedStats.forward.scanned = 2
    /\ sc[i].cumulatedStats.forward.processed = 0
    /\ Len(store) = 2
    /\ store = sc[i].hist.storeAtStart

\* C3: with force unset, a file that has a fingerprint gets exactly one
\* updateFingerprint call, for the uuid of that fingerprint with the mtime of
\* the file and the digest of its content, when its mtime on disk is strictly
\* greater than the stored one; otherwise the forward pass makes no call
\* for it and its mtime, digest and size in the storage stay.
C3_ChangeDetection ==
  \A i \in DOMAIN sc :
    LET s == sc[i]
        atStart == s.hist.storeAtStart
    IN ~s.scanOptions.force =>
         /\ s.pc = UpdateCall =>
              LET f == s.loc.fingerprint
                  p == f.longFilename
              IN /\ \E k \in DOMAIN atStart :
                      /\ atStart[k].longFilename = p
                      /\ atStart[k].uuid = f.uuid
                      /\ atStart[k].mtime < fs[p].mtime
                 /\ f.uuid \notin s.hist.updated
                 /\ f.mtime = fs[p].mtime
                 /\ f.md5 = Md5Of(fs[p].content)
         /\ CountEvents(s.trace, {UpdateCall})
              = Cardinality(s.hist.updated) + (IF s.pc = UpdateCall THEN 1 ELSE 0)
         /\ s.pc = "done" =>
              \A k \in DOMAIN atStart :
                LET f == atStart[k]
                    p == f.longFilename
                IN /\ store[k].uuid = f.uuid
                   /\ Yields(fs, s.scope, p) =>
                        IF fs[p].mtime > f.mtime
                        THEN /\ f.uuid \in s.hist.updated
                             /\ store[k].mtime = fs[p].mtime
                             /\ store[k].md5 = Md5Of(fs[p].content)
                        ELSE /\ f.uuid \notin s.hist.updated
                             /\ store[k].mtime = f.mtime
                             /\ store[k].md5 = f.md5
                             /\ store[k].size = f.size

\* a scan without force has completed: it updated the fingerprint of a file
\* whose content and mtime had changed and left the other fingerprint alone
C3_Witness ==
  \E i \in DOMAIN sc :
    /\ sc[i].pc = "done"
    /\ ~sc[i].scanOptions.force
    /\ Len(sc[i].hist.storeAtStart) = 2
    /\ Cardinality(sc[i].hist.updated) = 1
    /\ \E k \in sc[i].hist.updated :
         /\ store[k].md5 # sc[i].hist.storeAtStart[k].md5
         /\ store[k].mtime > sc[i].hist.storeAtStart[k].mtime

\* C4: with force set, every file the scope yields is inserted or updated
\* whatever its mtime: the forward pass counts as processed every file it
\* counted as scanned, and when it has ended processed equals scanned.
C4_Force ==
  \A i \in DOMAIN sc :
    LET s == sc[i]
    IN (s.pc # "idle" /\ s.scanOptions.force) =>
         /\ s.forward.totalProcessed + (IF ForwardDecisionPending(s) THEN 1 ELSE 0)
              = s.forward.totalScanned
         /\ Indexes(s.trace, {"forwardScanEnded"}) # {} =>
              /\ s.forward.totalProcessed = s.forward.totalScanned
              /\ s.cumulatedStats.forward.processed = s.cumulatedStats.forward.scanned
              /\ s.cumulatedStats.forward.scanned = NumberYielded(fs, s.scope)
              /\ \A p \in DOMAIN fs :
                   Yields(fs, s.scope, p) =>
                     \E k \in s.hist.inserted \cup s.hist.updated :
                       store[k].longFilename = p

\* a forced scan has completed: it updated two fingerprints whose files had
\* the mtime the storage already had
C4_Witness ==
  \E i \in DOMAIN sc :
    /\ sc[i].pc = "done"
    /\ sc[i].scanOptions.force
    /\ sc[i].hist.rescan
    /\ Cardinality(sc[i].hist.updated) = 2
    /\ sc[i].cumulatedStats.forward.processed = 2
    /\ \A k \in sc[i].hist.updated : sc[i].hist.storeAtStart[k].mtime = store[k].mtime

\* C5: a file that has no fingerprint gets exactly one insertFingerprint call:
\* uuid unset, vanishedAt null, hidden false, the no-owner id, the names, and
\* the mtime, size and content digest of the file; it gets no update call, and
\* it is counted as scanned, inserted and processed.
C5_Insert ==
  \A i \in DOMAIN sc :
    LET s == sc[i]
        pending == IF s.pc = InsertCall THEN 1 ELSE 0
    IN /\ s.pc = InsertCall =>
            LET p == s.loc.fingerprint.longFilename
            IN /\ Yields(fs, s.scope, p)
               /\ ~HasFingerprint(store, p)
               /\ s.loc.fingerprint =
                    [uuid |-> UndefinedUuid, vanishedAt |-> Null, hidden |-> FALSE,
                     ownerId |-> NobodyId, shortFilename |-> getShortFilename(p),
                     longFilename |-> p, mtime |-> fs[p].mtime, size |-> fs[p].size,
                     md5 |-> Md5Of(fs[p].content)]
               /\ s.forward.totalScanned >= s.forward.totalProcessed + 1
       /\ CountEvents(s.trace, {InsertCall}) = Cardinality(s.hist.inserted) + pending
       /\ s.forward.totalInserted = Cardinality(s.hist.inserted)
       /\ s.forward.totalProcessed = s.forward.totalInserted + s.forward.totalUpdated
       /\ s.forward.totalScanned >= s.forward.totalProcessed
       /\ s.hist.inserted \cap s.hist.updated = {}
       /\ s.pc # "idle" => s.hist.inserted = (DOMAIN store) \ (DOMAIN s.hist.storeAtStart)
       /\ \A k \in s.hist.inserted :
            LET p == store[k].longFilename
            IN /\ ~HasFingerprint(s.hist.storeAtStart, p)
               /\ \A n \in DOMAIN store : store[n].longFilename = p => n = k
               /\ store[k] = [uuid |-> k, vanishedAt |-> store[k].vanishedAt,
                              hidden |-> FALSE, ownerId |-> NobodyId,
                              shortFilename |-> getShortFilename(p), longFilename |-> p,
                              mtime |-> fs[p].mtime, size |-> fs[p].size,
                              md5 |-> Md5Of(fs[p].content)]
       /\ s.pc = "done" =>
            \A p \in DOMAIN fs :
              (Yields(fs, s.scope, p) /\ ~HasFingerprint(s.hist.storeAtStart, p)) =>
                \E k \in s.hist.inserted : store[k].longFilename = p

\* the insertFingerprint call for a file created after the first scan is
\* outstanding: the storage has the fingerprint of the other file only
C5_Witness ==
  \E i \in DOMAIN sc :
    /\ sc[i].pc = InsertCall
    /\ Len(store) = 1
    /\ Len(sc[i].hist.storeAtStart) = 1
    /\ sc[i].loc.fingerprint.uuid = UndefinedUuid
    /\ sc[i].loc.fingerprint.md5 = Md5Of(<<2, 2>>)
    /\ sc[i].forward.totalScanned = 2

(***************************************************************************)
(* C6..C10: the reverse pass                                               *)
(***************************************************************************)
\* the places in a trace where the handler is called for the fingerprint uuid
HandlerCalls(tr, uuid) ==
  {j \in DOMAIN tr : tr[j].ev = "processNext" /\ tr[j].args[2].uuid = uuid}

\* the fingerprints for which the handlers were called
Scanned(tr) == {tr[j].args[2].uuid : j \in Indexes(tr, {"processNext"})}

\* the handler calls are outstanding for the fingerprint s.loc.fingerprint
HandlersPending(s) == s.pc \in {"ReverseScanHandler_processNext", VanishedUpdateCall}

\* C6: over scans of a directory scope with no handler of the caller, a
\* fingerprint whose file is gone is given a non-null vanishedAt, a fingerprint
\* marked as vanished whose file is back has it cleared, each of the two counts
\* one processed in the reverse pass, a scan that finds nothing to mark or to
\* clear counts none; the fingerprint keeps its uuid and its file name, and no
\* second fingerprint is made for the file.
C6_VanishRestore ==
  \A i \in DOMAIN sc :
    LET s == sc[i]
        atStart == s.hist.storeAtStart
    IN (s.pc = "done" /\ s.scope.type = "dir" /\ s.handlers = <<>>) =>
         /\ Len(store) = Len(atStart) + Cardinality(s.hist.inserted)
         /\ \A k \in DOMAIN atStart :
              LET f == atStart[k]
                  g == store[k]
                  p == f.longFilename
              IN /\ g.uuid = f.uuid
                 /\ g.longFilename = p
                 /\ \A n \in DOMAIN store : store[n].longFilename = p => n = k
                 /\ ~Exists(fs, p) => g.vanishedAt # Null
                 /\ Yields(fs, s.scope, p) => g.vanishedAt = Null
                 /\ (~Exists(fs, p) /\ f.vanishedAt # Null) => g.vanishedAt = f.vanishedAt
         /\ s.cumulatedStats.reverse.processed =
              Cardinality({k \in DOMAIN atStart :
                             (atStart[k].vanishedAt = Null) # (store[k].vanishedAt = Null)})

\* the third scan of a directory has completed: the first made the
\* fingerprints, the second marked the fingerprint of a removed file, the third
\* cleared it after the file was written again as it was, and counted one
\* processed in the reverse pass and none in the forward pass
C6_Witness ==
  \E i \in DOMAIN sc :
    /\ sc[i].pc = "done"
    /\ sc[i].scans = 0
    /\ sc[i].scope.type = "dir"
    /\ sc[i].handlers = <<>>
    /\ Len(store) = 2
    /\ sc[i].hist.inserted = {}
    /\ sc[i].cumulatedStats.forward.processed = 0
    /\ sc[i].cumulatedStats.reverse.processed = 1
    /\ \E k \in DOMAIN store :
         /\ sc[i].hist.storeAtStart[k].vanishedAt # Null
         /\ store[k] = [sc[i].hist.storeAtStart[k] EXCEPT !.vanishedAt = Null]

\* C7: the built-in handler takes a fingerprint as vanished when it is out of
\* scope, has no file metadata or has a file of size 0.  It calls
\* updateFingerprint exactly when this differs from whether the stored
\* vanishedAt is non-null, and then calls back with changed = true; when the
\* two agree it makes no storage call and calls back with changed = false.
C7_VanishedDecision ==
  \A i \in DOMAIN sc :
    LET s == sc[i]
        tr == s.trace
    IN \A j \in DOMAIN tr :
         (tr[j].ev = "processNext" /\ tr[j].args[1] = "VanishedFilesHandler") =>
           LET fingerprint == tr[j].args[2]
               stats == tr[j].args[3]
               isInScope == tr[j].args[4]
               vanished == ~isInScope \/ IsNullStats(stats) \/ stats.size = 0
               wasVanished == fingerprint.vanishedAt # Null
               issued == j < Len(tr) /\ tr[j + 1].ev = VanishedUpdateCall
               result == IF issued THEN j + 2 ELSE j + 1
           IN /\ issued <=> (vanished # wasVanished)
              /\ result > Len(tr) => (issued /\ s.pc = VanishedUpdateCall)
              /\ result <= Len(tr) =>
                   /\ tr[result].ev = "processNextResult"
                   /\ tr[result].args =
                        <<"VanishedFilesHandler", fingerprint.uuid, NoError, issued>>

\* a reverse pass has completed in which the built-in handler updated the
\* fingerprint of a file that is now empty and called back with changed = true,
\* and made no call for the other fingerprint and called back with false
C7_Witness ==
  \E i \in DOMAIN sc :
    LET tr == sc[i].trace
    IN /\ sc[i].pc = "done"
       /\ CountEvents(tr, {VanishedUpdateCall}) = 1
       /\ \E j \in DOMAIN tr :
            /\ tr[j].ev = "processNext"
            /\ tr[j].args[3].kind = "file"
            /\ tr[j].args[3].size = 0
            /\ tr[j].args[2].vanishedAt = Null
            /\ tr[j + 1].ev = VanishedUpdateCall
       /\ \E j \in Indexes(tr, {"processNextResult"}) : tr[j].args[4]
       /\ \E j \in Indexes(tr, {"processNextResult"}) : ~tr[j].args[4]

\* C8: the update the built-in handler gives to the storage has two fields
\* only: the uuid of the fingerprint, and vanishedAt, which is the timestamp of
\* the storage when the file has newly vanished and null when it is back.  The
\* call changes vanishedAt of that fingerprint and nothing else in the storage:
\* mtime, md5, size, shortFilename and longFilename stay.
C8_VanishedUpdateFrame ==
  [][\A i \in DOMAIN sc :
       sc[i].pc = VanishedUpdateCall =>
         LET fingerprint == sc[i].loc.fingerprint
             newFingerPrint == sc[i].loc.newFingerPrint
         IN /\ DOMAIN newFingerPrint = {"uuid", "vanishedAt"}
            /\ newFingerPrint.uuid = fingerprint.uuid
            /\ newFingerPrint.vanishedAt =
                 IF fingerprint.vanishedAt = Null THEN Store_getVanishedAt(now) ELSE Null
            /\ newFingerPrint.vanishedAt # fingerprint.vanishedAt
            /\ DOMAIN store' = DOMAIN store
            /\ \A k \in DOMAIN store :
                 store'[k] = IF store[k].uuid = fingerprint.uuid
                             THEN [store[k] EXCEPT !.vanishedAt = newFingerPrint.vanishedAt]
                             ELSE store[k]]_vars

\* the built-in handler has updated a fingerprint whose file is back, and
\* the next handler is called: the fingerprint in the storage is the one of
\* the page but for vanishedAt, now null
C8_Witness ==
  \E i \in DOMAIN sc :
    LET tr == sc[i].trace
    IN /\ sc[i].pc = "ReverseScanHandler_processNext"
       /\ Len(tr) > 2
       /\ tr[Len(tr) - 2].ev = VanishedUpdateCall
       /\ tr[Len(tr) - 1].ev = "processNextResult"
       /\ tr[Len(tr) - 1].args[4]
       /\ sc[i].loc.fingerprint.vanishedAt # Null
       /\ sc[i].loc.newFingerPrint =
            [uuid |-> sc[i].loc.fingerprint.uuid, vanishedAt |-> Null]
       /\ \E k \in DOMAIN store :
            store[k] = [sc[i].loc.fingerprint EXCEPT !.vanishedAt = Null]

\* C9: the failure of a handler on a fingerprint does not end the scan.  The
\* handlers after it are still called for that fingerprint, in order, the
\* fingerprints after it are still delivered and scanned, the scan calls back
\* with its statistics, and the errors of the reverse pass are the number of
\* scanned fingerprints for which a handler failed.
C9_HandlerFailuresIsolated ==
  \A i \in DOMAIN sc :
    LET s == sc[i]
        tr == s.trace
        chain == <<"VanishedFilesHandler">> \o s.handlers
    IN /\ s.pc # "failed"
       /\ s.hist.failed \subseteq Scanned(tr)
       /\ \A u \in Scanned(tr) \ (IF HandlersPending(s) THEN {s.loc.fingerprint.uuid} ELSE {}) :
            LET calls == HandlerCalls(tr, u)
            IN /\ Cardinality(calls) = Len(chain)
               /\ \A j \in calls : tr[j].args[1] = chain[1 + Cardinality({m \in calls : m < j})]
       /\ s.pc = "done" =>
            /\ s.err = NoError
            /\ s.callbacks = 1
            /\ s.hist.delivered =
                 {k \in DOMAIN store :
                    IF s.scope.type = "dir" THEN InFolder(s.scope.folder, store[k])
                    ELSE \E n \in DOMAIN s.scope.longFilenames :
                           s.scope.longFilenames[n] = store[k].longFilename}
            /\ s.cumulatedStats.reverse.scanned = Cardinality(Scanned(tr))
            /\ s.cumulatedStats.reverse.errors = Cardinality(s.hist.failed)

\* a scan with two handlers of the caller has completed: a handler failed for
\* the first of the two fingerprints it scanned and none for the second
C9_Witness ==
  \E i \in DOMAIN sc :
    LET tr == sc[i].trace
        first == CHOOSE j \in Indexes(tr, {"processNext"}) :
                   \A m \in Indexes(tr, {"processNext"}) : j <= m
    IN /\ sc[i].pc = "done"
       /\ sc[i].handlers = <<"H1", "H2">>
       /\ sc[i].cumulatedStats.reverse.scanned = 2
       /\ sc[i].cumulatedStats.reverse.errors = 1
       /\ sc[i].hist.failed = {tr[first].args[2].uuid}
       /\ CountEvents(tr, {"processNext"}) = 6

\* C10: the reverse pass puts each fingerprint it scanned in one class:
\* an error when a handler failed for it, even when another handler reported a
\* change; otherwise processed when a handler reported a change; otherwise
\* none.  So processed + errors never exceeds scanned.
C10_ReverseClassification ==
  \A i \in DOMAIN sc :
    LET s == sc[i]
        current == IF HandlersPending(s) THEN {s.loc.fingerprint.uuid} ELSE {}
    IN /\ s.reverse.totalErrors = Cardinality(s.hist.failed \ current)
       /\ s.reverse.totalProcessed = Cardinality((s.hist.changed \ s.hist.failed) \ current)
       /\ s.reverse.totalProcessed + s.reverse.totalErrors + Cardinality(current)
            <= s.reverse.totalScanned
       /\ s.pc = "done" =>
            /\ s.cumulatedStats.reverse.errors = Cardinality(s.hist.failed)
            /\ s.cumulatedStats.reverse.processed =
                 Cardinality(s.hist.changed \ s.hist.failed)
            /\ s.cumulatedStats.reverse.processed + s.cumulatedStats.reverse.errors
                 <= s.cumulatedStats.reverse.scanned

\* a scan has completed that scanned two fingerprints and counted one error
\* and none processed: for one fingerprint a handler failed and another one
\* reported a change, for the other fingerprint no handler did either
C10_Witness ==
  \E i \in DOMAIN sc :
    /\ sc[i].pc = "done"
    /\ sc[i].cumulatedStats.reverse = [scanned |-> 2, processed |-> 0, errors |-> 1]
    /\ Cardinality(sc[i].hist.failed) = 1
    /\ sc[i].hist.changed = sc[i].hist.failed

(***************************************************************************)
(* C11..C20                                                                *)
(***************************************************************************)
\* what fs.lstat gives for p when no failure is injected
LstatOf(fsys, p) == IF Exists(fsys, p) THEN StatsOf(fsys[p]) ELSE NullStats

\* the reverse iteration of the scope reports the fingerprint f in scope on
\* the file system
ReportsInScope(fsys, scope, f) ==
  scope.type = "dir" =>
    ~DirectoryScope_isExcluded(scope, f.longFilename, f.shortFilename,
                               LstatOf(fsys, f.longFilename))

C12_VanishedAtMatchesScope ==
  \A i \in DOMAIN sc :
    (sc[i].pc = "done" /\ sc[i].scope.type = "dir") =>
      \A k \in DOMAIN store :
        InFolder(sc[i].scope.folder, store[k]) =>
          (store[k].vanishedAt = Null <=> Yields(fs, sc[i].scope, store[k].longFilename))

\* C13: the scanner never deletes a fingerprint and never reassigns a uuid.
\* Every step leaves each stored fingerprint its uuid and its long file name,
\* the number of stored fingerprints never decreases and grows by one
\* appended fingerprint at most; an update that is outstanding carries the
\* uuid the storage assigned to the fingerprint of that file, and either the
\* long file name that fingerprint has or no long file name at all.
C13_NoDeleteNoReassign ==
  [][/\ Len(store') >= Len(store)
     /\ Len(store') <= Len(store) + 1
     /\ \A k \in DOMAIN store :
          /\ store[k].uuid = k
          /\ store'[k].uuid = store[k].uuid
          /\ store'[k].longFilename = store[k].longFilename
     /\ \A k \in DOMAIN store' : store'[k].uuid = k
     /\ \A i \in DOMAIN sc :
          /\ sc[i].pc = UpdateCall =>
               LET f == sc[i].loc.fingerprint
               IN /\ f.uuid \in DOMAIN store
                  /\ f.longFilename = sc[i].loc.longFilename
                  /\ store[f.uuid].longFilename = f.longFilename
          /\ sc[i].pc = VanishedUpdateCall =>
               LET f == sc[i].loc.newFingerPrint
               IN /\ f.uuid \in DOMAIN store
                  /\ f.uuid = sc[i].loc.fingerprint.uuid
                  /\ "longFilename" \notin DOMAIN f]_vars

\* a scan has completed that updated the fingerprint of a modified file in
\* its forward pass and marked the fingerprint of a removed file in its
\* reverse pass: the storage still holds the two fingerprints under their
\* uuids and file names
C13_Witness ==
  \E i \in DOMAIN sc :
    /\ sc[i].pc = "done"
    /\ sc[i].hist.inserted = {}
    /\ sc[i].hist.updated # {}
    /\ CountEvents(sc[i].trace, {VanishedUpdateCall}) = 1
    /\ Len(store) = 2
    /\ \E k \in DOMAIN store : store[k].vanishedAt # Null
    /\ \E k \in DOMAIN store : store[k].uuid \in sc[i].hist.updated

\* C14: with a storage whose preload returns the fingerprint of the start
\* path when it has one, insertFingerprint is issued for a path only when
\* the storage holds no fingerprint with that long file name, so no two
\* stored fingerprints share a long file name, also when a list scope names
\* the same path more than once.
C14_UniqueLongFilename ==
  /\ \A j, k \in DOMAIN store :
       store[j].longFilename = store[k].longFilename => j = k
  /\ \A i \in DOMAIN sc :
       sc[i].pc = InsertCall =>
         /\ sc[i].loc.fingerprint.longFilename = sc[i].loc.longFilename
         /\ ~HasFingerprint(store, sc[i].loc.longFilename)

\* the scan of a list that names the same file twice has completed on an
\* empty storage: the file was scanned twice and inserted once
C14_Witness ==
  \E i \in DOMAIN sc :
    /\ sc[i].pc = "done"
    /\ sc[i].scope.type = "files"
    /\ sc[i].scope.longFilenames = <<FileA, FileA>>
    /\ sc[i].hist.storeAtStart = <<>>
    /\ sc[i].cumulatedStats.forward = [scanned |-> 2, processed |-> 1, errors |-> 0]
    /\ sc[i].hist.inserted = {1}
    /\ Len(store) = 1
    /\ store[1].longFilename = FileA

\* C15: the read-ahead cache is bounded: after every call of getFingerPrint
\* it holds at most 1100 fingerprints.
C15_CacheBounded ==
  \A i \in DOMAIN sc :
    sc[i].pc = "idle" => Len(sc[i].forward.fingerprintsCache) <= cacheLimit

\* the file p comes before the file q in a depth-first traversal that visits
\* the children of a directory in the order of their names: at the first
\* place where the paths differ, p is still in a directory whose name q goes
\* on, or p has the lesser character
DepthFirstBefore(p, q) ==
  \E k \in 1..Min(Len(p), Len(q)) :
    /\ SubSeq(p, 1, k - 1) = SubSeq(q, 1, k - 1)
    /\ p[k] # q[k]
    /\ \/ p[k] = "/"
       \/ q[k] # "/" /\ CharCode(p[k]) < CharCode(q[k])

\* C16: the forward iteration of a directory scope is depth-first, the
\* children of a directory in the order of their names: every file beneath a
\* sub-directory is yielded before any later sibling of that sub-directory.
\* On a storage that was empty the files are inserted as they are yielded, so
\* the uuids tell the order.
C16_DepthFirst ==
  \A i \in DOMAIN sc :
    (sc[i].pc = "done" /\ sc[i].scope.type = "dir" /\ sc[i].hist.storeAtStart = <<>>) =>
      \A j, k \in DOMAIN store :
        DepthFirstBefore(store[j].longFilename, store[k].longFilename) => j < k

\* the name matches the pattern of a filter: the pattern "*xyz" is matched by
\* the names that end with "xyz", any other pattern by the name it spells;
\* upper and lower case are the same
PatternMatches(pattern, name) ==
  IF pattern # <<>> /\ Head(pattern) = "*"
  THEN \E k \in 0..Len(name) :
         toLowerCase(SubSeq(name, k + 1, Len(name))) = toLowerCase(Tail(pattern))
  ELSE toLowerCase(name) = toLowerCase(pattern)

\* C17: during and after the forward pass of a directory scope on a storage
\* that was empty, the storage holds no fingerprint of a file smaller than
\* the minimum size, larger than the maximum size, whose name (or the name of
\* a directory between the root and the file) matches an exclusion pattern,
\* or, when there is an allowlist, whose name matches none of its patterns.
C17_FilterCorrect ==
  \A i \in DOMAIN sc :
    LET scope == sc[i].scope
    IN (sc[i].pc # "idle" /\ scope.type = "dir" /\ sc[i].hist.storeAtStart = <<>>) =>
         \A k \in DOMAIN store :
           LET f == store[k]
               names == {getShortFilename(d) :
                           d \in (Ancestors(scope.folder, f.longFilename) \ {scope.folder})}
                        \cup {f.shortFilename}
           IN /\ f.size = fs[f.longFilename].size
              /\ scope.minFileSize # 0 => f.size >= scope.minFileSize
              /\ scope.maxFileSize # 0 => f.size <= scope.maxFileSize
              /\ \A n \in DOMAIN scope.exclusions, name \in names :
                   ~PatternMatches(scope.exclusions[n], name)
              /\ scope.fileInclusions # <<>> =>
                   \E n \in DOMAIN scope.fileInclusions :
                     PatternMatches(scope.fileInclusions[n], f.shortFilename)

\* the scan of the tree without its directory "d", for the *.p files of 2
\* bytes, has completed on an empty storage: of the five files, one too
\* small, one too large, one in the excluded directory and one that matches
\* no pattern of the allowlist, only b.p has a fingerprint
C17_Witness ==
  \E i \in DOMAIN sc :
    /\ sc[i].pc = "done"
    /\ sc[i].scope.type = "dir"
    /\ sc[i].scope.minFileSize = 2
    /\ sc[i].scope.maxFileSize = 2
    /\ sc[i].scope.exclusions # <<>>
    /\ sc[i].scope.fileInclusions # <<>>
    /\ sc[i].hist.storeAtStart = <<>>
    /\ fs = TreeFs
    /\ Len(store) = 1
    /\ store[1].longFilename = FileB
    /\ sc[i].cumulatedStats.forward = [scanned |-> 1, processed |-> 1, errors |-> 0]

\* the queries of the file system of the forward and of the reverse iteration
ForwardQueries ==
  {"FilesScope_nextFile_lstat", "DirectoryScope_nextFile_lstat",
   "DirectoryScope_nextFile_readdir"}

ReverseQueries ==
  {"FilesScope_nextFingerprint_lstat", "DirectoryScope_nextFingerprint_lstat"}

\* the forward pass is at work on a file
ForwardFilePending(s) ==
  s.pc \in {"FingerprintsScanner_getFingerPrint_preLoadFingerprints",
            "FingerprintsScanner_processNext_md5_create",
            "FingerprintsScanner_processNext_md5_update", InsertCall, UpdateCall}

\* C18: the errors of the queries of the file system (fs.lstat, fs.readdir),
\* for both scopes and both passes.  When the query fails because the entry
\* does not exist (ENOENT) or is not accessible (EACCES) the scan goes on: the
\* forward pass goes to another entry, the reverse pass hands the fingerprint
\* to the handlers with no metadata.  When it fails with another error (EIO)
\* scan() calls back, once, with that error; and a query of the file system
\* ends the scan with an error in that case only.
C18_FileSystemErrors ==
  [][\A i \in DOMAIN sc :
       LET s == sc[i]
           t == sc'[i]
           tolerated == \/ faults' < faults /\ t.hist.fault = "EACCES"
                        \/ faults' = faults /\ ~Exists(fs, s.arg)
           other == faults' < faults /\ t.hist.fault = "EIO"
       IN s.pc \in (ForwardQueries \cup ReverseQueries) =>
            /\ tolerated =>
                 /\ t.pc # "failed"
                 /\ t.err = NoError
                 /\ s.pc \in ForwardQueries =>
                      /\ ForwardFilePending(t) => t.loc.longFilename # s.arg
                      /\ t.forward.totalInserted = s.forward.totalInserted
                      /\ t.forward.totalUpdated = s.forward.totalUpdated
                 /\ s.pc \in ReverseQueries =>
                      \E j \in (Len(s.trace) + 1)..Len(t.trace) :
                        /\ t.trace[j].ev = "processNext"
                        /\ t.trace[j].args[2] = s.loc.fingerprint
                        /\ t.trace[j].args[3] = NullStats
            /\ other =>
                 /\ t.pc = "failed"
                 /\ t.err = "EIO"
                 /\ t.callbacks = 1
                 /\ CountEvents(t.trace, {"scanEnded"}) = 0
            /\ t.pc = "failed" => other]_vars

\* a scan of the two files has completed on an empty storage though fs.lstat
\* failed with EACCES for one of them in the forward pass: that file was
\* skipped, the other one has its fingerprint
C18_Witness ==
  \E i \in DOMAIN sc :
    /\ sc[i].pc = "done"
    /\ sc[i].hist.fault = "EACCES"
    /\ sc[i].hist.storeAtStart = <<>>
    /\ fs = InitialFs
    /\ sc[i].cumulatedStats.forward = [scanned |-> 1, processed |-> 1, errors |-> 0]
    /\ Len(store) = 1

\* C19: the failures of the storage are fatal.  When a call of the storage
\* delegate has failed, whichever it is, scan() has called back, once, with
\* that error.
C19_StoreFailuresFatal ==
  \A i \in DOMAIN sc :
    sc[i].hist.fault = "STORE" =>
      /\ sc[i].pc = "failed"
      /\ sc[i].err = "STORE"
      /\ sc[i].callbacks = 1

\* C19 as amended: when a call of the storage delegate issued by a scanner or
\* by a scope fails (preload, insert, update of the forward pass, count, page,
\* lookup), scan() calls back, once, with that error, and the storage is left
\* as it was.  When the update issued by the built-in handler of vanished
\* files fails, it is the failure of a handler: the scan goes on, the
\* fingerprint is left as it was and is counted as an error of the reverse
\* pass.
C19_StoreFailures ==
  [][\A i \in DOMAIN sc :
       LET s == sc[i]
           t == sc'[i]
       IN (s.pc \in StorageOperations /\ faults' < faults /\ t.hist.fault = "STORE") =>
            /\ store' = store
            /\ IF s.pc = VanishedUpdateCall
               THEN /\ t.pc # "failed"
                    /\ t.err = NoError
                    /\ s.loc.fingerprint.uuid \in t.hist.failed
                    /\ \/ t.pc = "ReverseScanHandler_processNext" /\ t.loc.failed
                       \/ t.reverse.totalErrors = s.reverse.totalErrors + 1
               ELSE /\ t.pc = "failed"
                    /\ t.err = "STORE"
                    /\ t.callbacks = 1
                    /\ CountEvents(t.trace, {"scanEnded"}) = 0]_vars

\* a scan has completed though the update of the built-in handler failed for
\* the fingerprint of a removed file: the fingerprint is not marked as
\* vanished, the reverse pass counts one error
C19_Witness ==
  \E i \in DOMAIN sc :
    /\ sc[i].pc = "done"
    /\ sc[i].hist.fault = "STORE"
    /\ sc[i].cumulatedStats.reverse.errors = 1
    /\ sc[i].cumulatedStats.reverse.processed = 0
    /\ \E k \in DOMAIN store :
         /\ ~Exists(fs, store[k].longFilename)
         /\ store[k].vanishedAt = Null
         /\ sc[i].hist.failed = {k}

\* the scan of a list of one path, that is a regular file, by a caller
\* without handlers, has completed on a storage that was empty
OneFileScanned(s) ==
  /\ s.pc = "done"
  /\ s.scope.type = "files"
  /\ Len(s.scope.longFilenames) = 1
  /\ s.handlers = <<>>
  /\ s.hist.storeAtStart = <<>>
  /\ Exists(fs, s.scope.longFilenames[1])
  /\ isFile(StatsOf(fs[s.scope.longFilenames[1]]))

\* what the scan of the one file is said to return and to store
OneFileResult(s) ==
  /\ s.cumulatedStats.forward = [scanned |-> 1, processed |-> 1, errors |-> 0]
  /\ s.cumulatedStats.reverse = [scanned |-> 1, processed |-> 0, errors |-> 0]
  /\ Len(store) = 1
  /\ store[1].longFilename = s.scope.longFilenames[1]
  /\ store[1].md5 = Md5Of(fs[s.scope.longFilenames[1]].content)
  /\ store[1].md5 # NoFingerprint.md5
  /\ store[1].vanishedAt = Null

\* C20: the scan of a list scope of one path that is a regular file, whatever
\* its size, on an empty storage and without handlers of the caller, returns
\* forward {1, 1, 0} and reverse {1, 0, 0} and leaves one fingerprint, with a
\* digest and a null vanishedAt.
C20_OneFile ==
  \A i \in DOMAIN sc : OneFileScanned(sc[i]) => OneFileResult(sc[i])

\* C20 as amended: the same, for a file that is not empty.
C20_OneFileNotEmpty ==
  \A i \in DOMAIN sc :
    (OneFileScanned(sc[i]) /\ fs[sc[i].scope.longFilenames[1]].size > 0) =>
      OneFileResult(sc[i])

\* the scan of the list of the one file a.p, of 1 byte, has completed on an
\* empty storage
C20_Witness ==
  \E i \in DOMAIN sc :
    /\ OneFileScanned(sc[i])
    /\ sc[i].scope.longFilenames = <<FileA>>
    /\ fs[FileA].size = 1
    /\ sc[i].hist.inserted = {1}
    /\ sc[i].hist.delivered = {1}
    /\ Len(store) = 1

(***************************************************************************)
(* C21..C30                                                                *)
(***************************************************************************)
\* the notifications of the progress delegate, in the order of the phases
Notifications ==
  <<"scanStarted", "forwardScanStarted", "forwardScanProgress", "forwardScanEnded",
    "reverseScanStarted", "reverseScanProgress", "reverseScanEnded", "scanEnded">>

NotificationRank(ev) == CHOOSE n \in DOMAIN Notifications : Notifications[n] = ev

\* the notifications of a trace, in order
Notified(tr) ==
  SelectSeq(tr, LAMBDA e : \E n \in DOMAIN Notifications : Notifications[n] = e.ev)

\* the notifications made once per scan
Boundaries ==
  {"scanStarted", "forwardScanStarted", "forwardScanEnded",
   "reverseScanStarted", "reverseScanEnded", "scanEnded"}

\* C21: in a scan that completes the progress delegate is notified in the
\* order scanStarted, forwardScanStarted, forwardScanProgress (any number),
\* forwardScanEnded, reverseScanStarted, reverseScanProgress (any number),
\* reverseScanEnded, scanEnded; each start and each end exactly once; and at
\* no time a notification of the forward pass follows reverseScanStarted.
C21_NotificationOrder ==
  \A i \in DOMAIN sc :
    LET n == Notified(sc[i].trace)
    IN /\ \A j, k \in DOMAIN n :
            j < k => NotificationRank(n[j].ev) <= NotificationRank(n[k].ev)
       /\ \A b \in Boundaries : CountEvents(n, {b}) <= 1
       /\ sc[i].pc = "done" =>
            /\ \A b \in Boundaries : CountEvents(n, {b}) = 1
            /\ n[1].ev = "scanStarted"
            /\ n[2].ev = "forwardScanStarted"
            /\ n[Len(n) - 1].ev = "reverseScanEnded"
            /\ n[Len(n)].ev = "scanEnded"
            /\ \E k \in DOMAIN n :
                 /\ n[k].ev = "forwardScanEnded"
                 /\ n[k + 1].ev = "reverseScanStarted"

\* a scan has completed that notified the progress of both passes for two
\* entries
C21_Witness ==
  \E i \in DOMAIN sc :
    /\ sc[i].pc = "done"
    /\ CountEvents(sc[i].trace, {"forwardScanProgress"}) = 3
    /\ CountEvents(sc[i].trace, {"reverseScanProgress"}) = 3
    /\ CountEvents(sc[i].trace, {"scanEnded"}) = 1

\* the operations of the file system, of md5, of the storage delegate and of
\* the handlers that a scan waits for
Operations ==
  StorageOperations \cup
  {"FilesScope_nextFile_lstat", "DirectoryScope_nextFile_lstat",
   "DirectoryScope_nextFile_readdir", "DirectoryScope_nextFingerprint_lstat",
   "FilesScope_nextFingerprint_lstat", "FingerprintsScanner_processNext_md5_create",
   "FingerprintsScanner_processNext_md5_update", "ReverseScanHandler_processNext"}

\* C22: scan() calls its callback exactly once, with the statistics of the
\* two passes when both have ended, or with one fatal error and no
\* statistics; when the callback has been called the scan has no operation
\* outstanding and starts none (the caller's next step is its return), and
\* the storage is left as the callback found it.
C22_CallbackOnce ==
  [][\A i \in DOMAIN sc :
       /\ sc'[i].callbacks <= 1
       /\ sc'[i].pc \in Operations => sc'[i].callbacks = 0
       /\ sc'[i].pc \in {"done", "failed"} <=> sc'[i].callbacks = 1
       /\ sc'[i].pc = "done" =>
            /\ sc'[i].err = NoError
            /\ sc'[i].result = Statistics(sc'[i].cumulatedStats)
            /\ CountEvents(sc'[i].trace, {"forwardScanEnded"}) = 1
            /\ CountEvents(sc'[i].trace, {"reverseScanEnded"}) = 1
       /\ sc'[i].pc = "failed" =>
            /\ sc'[i].err # NoError
            /\ sc'[i].result = NoStatistics
            /\ CountEvents(sc'[i].trace, {"scanEnded"}) = 0
       /\ sc[i].pc \in {"done", "failed"} =>
            /\ sc'[i].pc = "idle"
            /\ store' = store
            /\ fs' = fs]_vars

\* a scan has called its callback with a fatal error of the storage, met in
\* its reverse pass
C22_Witness ==
  \E i \in DOMAIN sc :
    /\ sc[i].pc = "failed"
    /\ sc[i].err = "STORE"
    /\ sc[i].callbacks = 1
    /\ CountEvents(sc[i].trace, {"reverseScanStarted"}) = 1

\* the place of the first occurrence of x in the sequence q
FirstIndex(q, x) == CHOOSE n \in DOMAIN q : q[n] = x /\ \A m \in 1..(n - 1) : q[m] # x

\* the entry p comes before the entry q in the order of the scope: the order
\* of the list, or the order of the names (that of readdir's sorted names in
\* one folder, and of the pages of getFingerPrints)
EntryBefore(scope, p, q) ==
  IF scope.type = "files"
  THEN FirstIndex(scope.longFilenames, p) < FirstIndex(scope.longFilenames, q)
  ELSE StringLess(p, q)

\* the fingerprints given to the built-in handler, in order
HandledByVanished(tr) ==
  SelectSeq(tr, LAMBDA e : e.ev = "processNext" /\ e.args[1] = "VanishedFilesHandler")

\* C23: a scan has at most one operation of the file system, of md5 or of the
\* storage outstanding: one exactly while it waits, none when it is over; and
\* the entries are processed in the order of the traversal (the fingerprints
\* a scan inserts are inserted in that order) and of the pages (the
\* fingerprints are handed to the handlers in that order).
C23_OneAtATime ==
  \A i \in DOMAIN sc :
    LET s == sc[i]
        h == HandledByVanished(s.trace)
    IN /\ s.outstanding <= 1
       /\ s.outstanding = 1 <=> s.pc \in Operations
       /\ s.pc \in {"idle", "done", "failed"} <=> s.outstanding = 0
       /\ \A j, k \in s.hist.inserted :
            j < k => EntryBefore(s.scope, store[j].longFilename, store[k].longFilename)
       /\ \A j, k \in DOMAIN h :
            j < k => EntryBefore(s.scope, h[j].args[2].longFilename,
                                 h[k].args[2].longFilename)

\* a scan that inserted two fingerprints, and handed both to the handlers,
\* waits for the storage
C23_Witness ==
  \E i \in DOMAIN sc :
    /\ sc[i].outstanding = 1
    /\ sc[i].pc \in StorageOperations
    /\ Cardinality(sc[i].hist.inserted) = 2
    /\ Len(HandledByVanished(sc[i].trace)) = 2

\* the calls of the handlers' processNext, in order
HandlerInvocations(tr) == SelectSeq(tr, LAMBDA e : e.ev = "processNext")

\* the chain of a scan: the built-in handler, then the handlers of the caller
Chain(s) == <<"VanishedFilesHandler">> \o s.handlers

\* the handlers were called, so far, chain after chain: the j-th call is that
\* of the handler at the place of j in the chain, for the fingerprint of the
\* first call of its round; the handler the scan waits for is the last called;
\* the fingerprint of the round in progress is the one held
ChainRuns(s) ==
  LET p == HandlerInvocations(s.trace)
      n == Len(Chain(s))
  IN /\ \A j \in DOMAIN p :
          /\ p[j].args[1] = Chain(s)[((j - 1) % n) + 1]
          /\ p[j].args[2] = p[j - ((j - 1) % n)].args[2]
          /\ p[j].args[4]
     /\ Len(p) <= s.reverse.totalScanned * n
     /\ Len(p) > (s.reverse.totalScanned - 1) * n
     /\ s.pc = "ReverseScanHandler_processNext" =>
          /\ p[Len(p)].args[1] = s.arg
          /\ p[Len(p)].args[2] = s.loc.fingerprint
          /\ Len(s.loc.h) = n - (((Len(p) - 1) % n) + 1)
     /\ s.pc = "done" => Len(p) = s.cumulatedStats.reverse.scanned * n
     /\ CountEvents(s.trace, {"reverseScanStarted"}) = 1 /\ s.pc \notin {"done", "failed"}
          => s.instanciatedHandlers = Chain(s)

\* C24: for every fingerprint in scope the reverse scanner calls every handler
\* of the chain once, one after the other, the built-in handler first and then
\* the handlers of the caller in their order; the chain is the same for every
\* fingerprint, and the list of the caller is never changed.
C24_HandlerChain ==
  [][\A i \in DOMAIN sc :
       /\ sc'[i].handlers = sc[i].handlers
       /\ ChainRuns(sc'[i])]_vars

\* a scan with two handlers of the caller has completed: it scanned two
\* fingerprints, called the three handlers for each, and one call failed
C24_Witness ==
  \E i \in DOMAIN sc :
    /\ sc[i].pc = "done"
    /\ sc[i].handlers = <<"H1", "H2">>
    /\ sc[i].cumulatedStats.reverse.scanned = 2
    /\ sc[i].cumulatedStats.reverse.errors = 1
    /\ Len(HandlerInvocations(sc[i].trace)) = 6

\* C25: a fingerprint the forward pass of a scan inserted or updated has, in
\* the storage, the mtime, the digest and the size of its file as that scan
\* observed it (the file system does not change during a scan).
C25_StoredMatchesFile ==
  \A i \in DOMAIN sc :
    \A u \in sc[i].hist.inserted \cup sc[i].hist.updated :
      LET f == store[u]
      IN /\ f.mtime = fs[f.longFilename].mtime
         /\ f.md5 = Md5Of(fs[f.longFilename].content)
         /\ f.size = fs[f.longFilename].size

GetFingerPrintsCall == "DirectoryScope_reverseScanNextBatch_getFingerPrints"
CountFingerPrintsCall == "DirectoryScope_startReverseScan_countFingerPrints"
ReverseLstatCall == "DirectoryScope_nextFingerprint_lstat"

\* the reverse iteration of a directory scope over the storage st, all of
\* whose fingerprints are under the root and have their rank as uuid: pages
\* are asked for at the offsets 0, limit, 2 * limit, ... as long as the pages
\* are full; the offset is the number of fingerprints received; the
\* fingerprints are delivered once each, in order; the iteration ends on
\* the first page that is not full, an empty one (reverseScanNext) exactly
\* when the count is a multiple of the batch size
Paginated(s, st) ==
  LET scope == s.scope
  IN /\ s.pc = GetFingerPrintsCall =>
          /\ ~scope.reverseScanFinished
          /\ scope.fingerprints = <<>>
          /\ scope.offset = scope.processed
          /\ scope.offset <= Len(st)
     /\ s.pc # CountFingerPrintsCall =>
          /\ scope.totalRecords = Len(st)
          /\ s.hist.delivered = 1..scope.processed
          /\ s.reverse.totalScanned = scope.processed
          /\ scope.reverseScanFinished => scope.offset = Len(st)
          /\ ~scope.reverseScanFinished => scope.offset % limit = 0
     /\ s.pc = ReverseLstatCall =>
          /\ scope.offset = scope.processed + 1 + Len(scope.fingerprints)
          /\ s.loc.fingerprint = st[scope.processed + 1]
     /\ s.pc = "done" =>
          /\ scope.reverseScanFinished
          /\ scope.fingerprints = <<>>
          /\ scope.processed = Len(st)
          /\ scope.reverseScanNext <=> Len(st) % limit = 0
          /\ s.cumulatedStats.reverse.scanned = Len(st)
     /\ s.pc \in {CountFingerPrintsCall, GetFingerPrintsCall, ReverseLstatCall, "done"}

\* what is left to do of the iteration: it decreases at every step
PagesLeft(s, st) ==
  4 * (Len(st) - (IF s.scope.processed = UndefinedCount THEN 0 ELSE s.scope.processed))
  + (IF s.scope.reverseScanFinished THEN 0 ELSE 2)
  + (CASE s.pc = CountFingerPrintsCall -> 3
       [] s.pc = GetFingerPrintsCall -> 2
       [] s.pc = ReverseLstatCall -> 1
       [] OTHER -> 0)

\* C26: on a storage that does not change during the pass, the reverse
\* iteration of a directory scope starts at the offset 0 and advances it by
\* the length of each page, delivers every fingerprint under the root exactly
\* once, and ends after the first page shorter than the batch (an empty page
\* more when the count is a multiple of the batch size); every step brings
\* the pass nearer to its end, so that it terminates.
C26_Pagination ==
  [][\A i \in DOMAIN sc :
       /\ store' = store
       /\ sc[i].pc = CountFingerPrintsCall => sc[i].scope.offset = 0
       /\ Paginated(sc'[i], store')
       /\ PagesLeft(sc'[i], store') < PagesLeft(sc[i], store)
       /\ PagesLeft(sc'[i], store') >= 0]_vars

\* the pass over a storage of one batch exactly has received a first page,
\* that is full: the offset is advanced by its length, the first fingerprint
\* is looked at on the file system, and the iteration is not finished (one
\* more page will be asked for)
C26_Witness ==
  \E i \in DOMAIN sc :
    /\ sc[i].pc = ReverseLstatCall
    /\ Len(store) = limit
    /\ sc[i].scope.offset = limit
    /\ Len(sc[i].scope.fingerprints) = limit - 1
    /\ ~sc[i].scope.reverseScanFinished
    /\ sc[i].scope.processed = 0

\* the reverse iteration of a list scope is looking an entry up
ListLookupPending(s) ==
  s.pc \in {"FilesScope_nextFingerprint_getFingerPrint", "FilesScope_nextFingerprint_lstat"}

\* the entries of the list the reverse iteration is done with
ListEntriesDone(s) ==
  SubSeq(s.scope.longFilenames, 1,
         Len(s.scope.longFilenames) - Len(s.scope.remaining)
           - (IF ListLookupPending(s) THEN 1 ELSE 0))

\* C27: the reverse iteration of a list scope looks each entry of the list
\* up by its path, in the order of the list; every entry that has a
\* fingerprint in the storage is delivered once, in scope, with the metadata
\* of its file or none when the file is missing; the entries without
\* fingerprint are skipped.
C27_ListReverseIteration ==
  \A i \in DOMAIN sc :
    LET s == sc[i]
        h == HandledByVanished(s.trace)
        done == ListEntriesDone(s)
        found == SelectSeq(done, LAMBDA p : HasFingerprint(store, p))
    IN (s.scope.type = "files" /\ CountEvents(s.trace, {"reverseScanStarted"}) = 1) =>
         /\ Len(h) = Len(found)
         /\ \A j \in DOMAIN h :
              /\ h[j].args[2].longFilename = found[j]
              /\ h[j].args[2].uuid = Store_getFingerPrint(store, found[j]).uuid
              /\ h[j].args[3] = LstatOf(fs, found[j])
              /\ h[j].args[4] = TRUE
         /\ ListLookupPending(s) =>
              s.arg = s.scope.longFilenames[Len(done) + 1]
         /\ s.pc = "FilesScope_nextFingerprint_lstat" =>
              s.loc.fingerprint = Store_getFingerPrint(store, s.arg)
         /\ s.pc = "done" => done = s.scope.longFilenames
         /\ s.hist.delivered = {h[j].args[2].uuid : j \in DOMAIN h}

\* the scan of the list a.p, b.p has completed: a.p has no fingerprint and
\* was skipped, b.p has one and its file is missing, it was delivered
\* without metadata
C27_Witness ==
  \E i \in DOMAIN sc :
    /\ sc[i].pc = "done"
    /\ sc[i].scope.longFilenames = <<FileA, FileB>>
    /\ ~HasFingerprint(store, FileA)
    /\ HasFingerprint(store, FileB)
    /\ ~Exists(fs, FileB)
    /\ Len(HandledByVanished(sc[i].trace)) = 1
    /\ IsNullStats(HandledByVanished(sc[i].trace)[1].args[3])

ListLstatCall == "FilesScope_nextFile_lstat"

\* the step yields the path the forward iteration of the list asked the
\* metadata of: the scanner looks its fingerprint up, in the storage or in
\* its cache (and then counts the file as scanned)
ListYields(s, t) ==
  \/ t.pc = "FingerprintsScanner_getFingerPrint_preLoadFingerprints" /\ t.arg = s.arg
  \/ t.forward.totalScanned = s.forward.totalScanned + 1

\* the forward iteration of the list goes on after the entry it asked the
\* metadata of: with the next entry of the list, or to its end
ListContinues(s, t) ==
  IF s.scope.remaining = <<>>
  THEN CountEvents(t.trace, {"forwardScanEnded"}) = 1
  ELSE /\ t.pc = ListLstatCall
       /\ t.arg = Head(s.scope.remaining)
       /\ t.scope.remaining = Tail(s.scope.remaining)

\* C28: the forward iteration of a list scope asks the metadata of the
\* entries of the list one by one, in the order of the list; it yields an
\* entry, once, only when the answer is that of a regular file; an entry
\* that is absent, that cannot be accessed, that is a directory or is not a
\* regular file is skipped and the iteration goes on with the next entry; a
\* directory of the list is never listed.
C28_ListForwardIteration ==
  [][\A i \in DOMAIN sc :
       LET s == sc[i]
           t == sc'[i]
           p == s.arg
           list == s.scope.longFilenames
           regular == Exists(fs, p) /\ isFile(StatsOf(fs[p]))
           injected == faults' = faults - 1
       IN s.scope.type = "files" =>
            /\ t.pc \notin {"DirectoryScope_nextFile_lstat", "DirectoryScope_nextFile_readdir"}
            /\ \A u \in t.hist.inserted :
                 \E n \in DOMAIN list : list[n] = store'[u].longFilename
            /\ t.pc = ListLstatCall =>
                 t.arg = list[Len(list) - Len(t.scope.remaining)]
            /\ s.pc = ListLstatCall =>
                 /\ ListYields(s, t) =>
                      /\ regular /\ ~injected
                      /\ t.loc.longFilename = p
                      /\ t.loc.stats = StatsOf(fs[p])
                 /\ (regular /\ ~injected) => ListYields(s, t)
                 /\ (~regular /\ ~injected) => ListContinues(s, t)
                 /\ (injected /\ t.hist.fault = "EACCES") => ListContinues(s, t)
                 /\ t.pc = "failed" => injected /\ t.hist.fault = "EIO"
                 /\ ~ListYields(s, t) /\ t.pc # "failed" =>
                      ListContinues(s, t)]_vars

\* the scan of the list of the folder and of a.p has completed: it scanned
\* one file, a.p, and the file b.p of the folder has no fingerprint
C28_Witness ==
  \E i \in DOMAIN sc :
    /\ sc[i].pc = "done"
    /\ sc[i].scope.longFilenames = <<Root, FileA>>
    /\ sc[i].cumulatedStats.forward.scanned = 1
    /\ sc[i].hist.inserted = {1}
    /\ store[1].longFilename = FileA
    /\ Exists(fs, FileB)
    /\ ~HasFingerprint(store, FileB)

\* C29: the counters of the forward scanner, in every state of a pass:
\* processed = inserted + updated, processed <= scanned (a file whose insert
\* or update is in progress is scanned and not yet processed), every file the
\* scope yields is counted as scanned once, whatever becomes of it (inserted,
\* updated or left as it is), and the errors of the result are 0.
C29_ForwardCounters ==
  \A i \in DOMAIN sc :
    LET s == sc[i]
        f == s.forward
        ended == CountEvents(s.trace, {"forwardScanEnded"}) = 1
    IN /\ f.totalProcessed = f.totalInserted + f.totalUpdated
       /\ f.totalInserted = Cardinality(s.hist.inserted)
       /\ f.totalUpdated = Cardinality(s.hist.updated)
       /\ f.totalProcessed + (IF ForwardDecisionPending(s) THEN 1 ELSE 0)
            <= f.totalScanned
       /\ f.totalScanned <= NumberYielded(fs, s.scope)
       /\ f.totalErrors = 0
       /\ ended =>
            /\ f.totalScanned = NumberYielded(fs, s.scope)
            /\ s.cumulatedStats.forward =
                 [scanned |-> f.totalScanned, processed |-> f.totalProcessed,
                  errors |-> 0]
       /\ s.pc = "done" =>
            /\ s.result.forward.errors = 0
            /\ s.result.forward.scanned = NumberYielded(fs, s.scope)
            /\ s.result.forward.processed =
                 Cardinality(s.hist.inserted) + Cardinality(s.hist.updated)

\* a forward pass has ended that scanned two files: it inserted the
\* fingerprint of the one and updated that of the other
C29_Witness ==
  \E i \in DOMAIN sc :
    /\ CountEvents(sc[i].trace, {"forwardScanEnded"}) = 1
    /\ sc[i].forward.totalScanned = 2
    /\ sc[i].forward.totalInserted = 1
    /\ sc[i].forward.totalUpdated = 1

\* the forwardScanProgress notifications of a trace, in order
ForwardProgress(tr) == SelectSeq(tr, LAMBDA e : e.ev = "forwardScanProgress")

\* C30: the forward scanner notifies its running totals after each entry and
\* once more at the end of the pass: scanned + 1 notifications in a pass that
\* has ended, one per scanned entry before; when nothing is in progress for
\* the entry last notified, the totals of its notification are those of the
\* scanner, the outcome of that entry included; and the last notification
\* carries the scanned and processed totals of the result.
C30_ProgressTotals ==
  \A i \in DOMAIN sc :
    LET s == sc[i]
        f == s.forward
        prog == ForwardProgress(s.trace)
        ended == CountEvents(s.trace, {"forwardScanEnded"}) = 1
    IN /\ Len(prog) = f.totalScanned + (IF ended THEN 1 ELSE 0)
       /\ ended =>
            /\ prog[Len(prog)].args[1] = s.cumulatedStats.forward.scanned
            /\ prog[Len(prog)].args[2] = s.cumulatedStats.forward.processed
       /\ (prog # <<>> /\ ~ForwardDecisionPending(s)) =>
            prog[Len(prog)].args =
              <<f.totalScanned, f.totalProcessed, f.totalInserted, f.totalUpdated>>

(***************************************************************************)
(* C31..C40                                                                *)
(***************************************************************************)
\* the names of the directories of the path p: its full segments but the last
PathSegments(p) ==
  {getShortFilename(SubSeq(p, 1, k)) : k \in {n \in 1..(Len(p) - 1) : p[n + 1] = "/"}}

\* the path matches an exclusion pattern of the scope: its short name is the
\* pattern, or ends with what follows the "*" of the pattern, or the pattern
\* is one of the directories of the path
ExclusionMatches(scope, p) ==
  \E n \in DOMAIN scope.exclusions :
    LET pattern == scope.exclusions[n]
    IN \/ PatternMatches(pattern, getShortFilename(p))
       \/ /\ Head(pattern) # "*"
          /\ \E name \in PathSegments(p) : PatternMatches(pattern, name)

\* the short name of the path matches a pattern of the allowlist of the scope
AllowlistMatches(scope, p) ==
  \E n \in DOMAIN scope.fileInclusions :
    PatternMatches(scope.fileInclusions[n], getShortFilename(p))

\* the tests of the filter that look at the metadata of a file only
MetadataAccepted(scope, stats) ==
  /\ stats.size # 0
  /\ scope.minFileSize # 0 => stats.size >= scope.minFileSize
  /\ scope.maxFileSize # 0 => stats.size <= scope.maxFileSize

DirectoryLstatCall == "DirectoryScope_nextFile_lstat"

\* the step lets the path the forward iteration asked the metadata of pass
\* the filter: a file is yielded to the scanner, a directory is listed
FilterPasses(s, t) ==
  \/ t.pc = "FingerprintsScanner_getFingerPrint_preLoadFingerprints" /\ t.arg = s.arg
  \/ t.forward.totalScanned = s.forward.totalScanned + 1
  \/ t.pc = "DirectoryScope_nextFile_readdir" /\ t.arg = s.arg

\* C31: the precedence of the tests of the filter of a directory scope.  A
\* file or directory that matches an exclusion pattern is excluded, also
\* when it matches the allowlist; a directory that matches no exclusion
\* pattern is listed whatever the allowlist; a file is tested against the
\* allowlist only when the allowlist is not empty and the metadata of the
\* file are there: a fingerprint whose file is gone is in scope unless an
\* exclusion pattern matches.
C31_FilterPrecedence ==
  [][\A i \in DOMAIN sc :
       LET s == sc[i]
           t == sc'[i]
           scope == s.scope
       IN scope.type = "dir" =>
            /\ (s.pc = DirectoryLstatCall /\ Exists(fs, s.arg)) =>
                 LET p == s.arg
                     stats == StatsOf(fs[p])
                 IN /\ ExclusionMatches(scope, p) => ~FilterPasses(s, t)
                    /\ (isDirectory(stats) /\ ~ExclusionMatches(scope, p)) =>
                         FilterPasses(s, t)
                    /\ (isFile(stats) /\ scope.fileInclusions # <<>>
                          /\ ~AllowlistMatches(scope, p)) => ~FilterPasses(s, t)
                    /\ (isFile(stats) /\ ~ExclusionMatches(scope, p)
                          /\ MetadataAccepted(scope, stats)
                          /\ getExtension(getShortFilename(p)) # <<>>
                          /\ (scope.fileInclusions = <<>> \/ AllowlistMatches(scope, p))) =>
                         FilterPasses(s, t)
            /\ s.pc = ReverseLstatCall =>
                 LET p == s.loc.fingerprint.longFilename
                     scanned == t.reverse.totalScanned = s.reverse.totalScanned + 1
                 IN /\ ExclusionMatches(scope, p) => ~scanned
                    /\ (~Exists(fs, p) /\ ~ExclusionMatches(scope, p)) => scanned
                    /\ (Exists(fs, p) /\ isFile(StatsOf(fs[p]))
                          /\ scope.fileInclusions # <<>>
                          /\ ~AllowlistMatches(scope, p)) => ~scanned]_vars

\* the scan of the *.p files of the tree but those named b.p has completed
\* on an empty storage: b.p and B.p match the allowlist and have no
\* fingerprint, the file a.p of the directory d, that does not match the
\* allowlist, has one
C31_Witness ==
  \E i \in DOMAIN sc :
    /\ sc[i].pc = "done"
    /\ sc[i].scope.type = "dir"
    /\ sc[i].scope.exclusions # <<>>
    /\ AllowlistMatches(sc[i].scope, FileB)
    /\ ExclusionMatches(sc[i].scope, FileB)
    /\ ExclusionMatches(sc[i].scope, FileBig)
    /\ ~AllowlistMatches(sc[i].scope, SubDir)
    /\ sc[i].hist.storeAtStart = <<>>
    /\ fs = TreeFs
    /\ Len(store) = 2
    /\ store[1].longFilename = FileA
    /\ store[2].longFilename = FileD

\* a directory between the root of the scope and the path p, or the root, is
\* excluded by the filter of the scope
Pruned(fsys, scope, p) ==
  \E d \in Ancestors(scope.folder, p) :
    /\ Exists(fsys, d)
    /\ DirectoryScope_isExcluded(scope, d, getShortFilename(d), StatsOf(fsys[d]))

\* the operations of the forward pass on the file the scope yielded
ForwardFileOperations ==
  {"FingerprintsScanner_getFingerPrint_preLoadFingerprints",
   "FingerprintsScanner_processNext_md5_create",
   "FingerprintsScanner_processNext_md5_update",
   InsertCall, UpdateCall}

\* C33: the forward iteration of a directory scope never lists a directory
\* the filter excludes, and no path beneath such a directory is put on the
\* work list, asked the metadata of, yielded to the scanner, inserted or
\* updated, whatever the name of the file.
C33_ExcludedDirectoryPruned ==
  \A i \in DOMAIN sc :
    LET s == sc[i]
    IN s.scope.type = "dir" =>
         /\ \A n \in DOMAIN s.hist.entered : ~Pruned(fs, s.scope, s.hist.entered[n])
         /\ \A n \in DOMAIN s.scope.stack : ~Pruned(fs, s.scope, s.scope.stack[n])
         /\ s.pc \in {DirectoryLstatCall, "DirectoryScope_nextFile_readdir"} =>
              ~Pruned(fs, s.scope, s.arg)
         /\ s.pc = "DirectoryScope_nextFile_readdir" =>
              ~DirectoryScope_isExcluded(s.scope, s.arg, getShortFilename(s.arg),
                                         LstatOf(fs, s.arg))
         /\ s.pc \in ForwardFileOperations => ~Pruned(fs, s.scope, s.loc.longFilename)
         /\ \A u \in s.hist.inserted \cup s.hist.updated :
              ~Pruned(fs, s.scope, store[u].longFilename)

\* the scan of the tree without its directory "d" has completed: d was on
\* the work list, the file a.p beneath it, whose name and size pass the
\* filter, was not, and it has no fingerprint
C33_Witness ==
  \E i \in DOMAIN sc :
    /\ sc[i].pc = "done"
    /\ sc[i].scope.type = "dir"
    /\ fs = TreeFs
    /\ \E n \in DOMAIN sc[i].hist.entered : sc[i].hist.entered[n] = SubDir
    /\ Pruned(fs, sc[i].scope, FileD)
    /\ AllowlistMatches(sc[i].scope, FileD)
    /\ MetadataAccepted(sc[i].scope, StatsOf(fs[FileD]))
    /\ \A n \in DOMAIN sc[i].hist.entered : sc[i].hist.entered[n] # FileD
    /\ store # <<>>
    /\ ~HasFingerprint(store, FileD)

\* the entries of the file system at and beneath the folder
TreePaths(fsys, folder) ==
  {q \in DOMAIN fsys : Exists(fsys, q) /\ (q = folder \/ startsWith(q, folder \o <<"/">>))}

\* the paths of a sequence
PathsOf(seq) == {seq[n] : n \in DOMAIN seq}

\* the forward pass of the scan is running
ForwardRuns(s) ==
  s.pc \in {DirectoryLstatCall, "DirectoryScope_nextFile_readdir"} \cup ForwardFileOperations

\* the paths the forward iteration has taken from its work list, but the one
\* whose metadata, children or fingerprint are being looked up
TakenFromWorkList(s) ==
  (PathsOf(s.hist.entered) \ PathsOf(s.scope.stack))
  \ (IF s.pc \in {DirectoryLstatCall, "DirectoryScope_nextFile_readdir",
                  "FingerprintsScanner_getFingerPrint_preLoadFingerprints"}
      THEN {s.arg} ELSE {})

\* what is left to do of the forward pass over the tree: the entries that
\* never were on the work list, the entries on it, and the operations on the
\* entry taken from it
ForwardLeft(fsys, s) ==
  IF ~ForwardRuns(s) THEN 0
  ELSE 7 * Cardinality(TreePaths(fsys, s.scope.folder) \ PathsOf(s.hist.entered))
       + 6 * Len(s.scope.stack)
       + (CASE s.pc = DirectoryLstatCall -> 5
            [] s.pc = "DirectoryScope_nextFile_readdir" -> 4
            [] s.pc = "FingerprintsScanner_getFingerPrint_preLoadFingerprints" -> 4
            [] s.pc \in {"FingerprintsScanner_processNext_md5_create",
                         "FingerprintsScanner_processNext_md5_update"} -> 3
            [] OTHER -> 2)

\* C34: the forward iteration of a directory scope over a finite tree.  The
\* work list never holds a path twice and no path is put on it a second
\* time; only directories are listed, and no path beneath a symbolic link is
\* ever on the work list; the files scanned are the regular files taken
\* from the work list that pass the filter, once each; the pass ends with an
\* empty work list; and every step of the pass brings it nearer to its end,
\* so that it terminates.
C34_ForwardTerminates ==
  [][\A i \in DOMAIN sc :
       LET s == sc[i]
           t == sc'[i]
           entered == t.hist.entered
       IN t.scope.type = "dir" =>
            /\ \A m, n \in DOMAIN entered : entered[m] = entered[n] => m = n
            /\ PathsOf(t.scope.stack) \subseteq PathsOf(entered)
            /\ PathsOf(entered) \subseteq TreePaths(fs', t.scope.folder)
            /\ \A n \in DOMAIN entered :
                 \A d \in Ancestors(t.scope.folder, entered[n]) :
                   isDirectory(LstatOf(fs', d))
            /\ t.pc = "DirectoryScope_nextFile_readdir" => isDirectory(LstatOf(fs', t.arg))
            /\ t.forward.totalScanned =
                 Cardinality({p \in TakenFromWorkList(t) : Yields(fs', t.scope, p)})
            /\ (CountEvents(t.trace, {"forwardScanEnded"}) = 1
                  /\ CountEvents(s.trace, {"forwardScanEnded"}) = 0) =>
                 (s.scope.stack = <<>> /\ t.scope.stack = <<>>)
            /\ ForwardRuns(s) =>
                 /\ ForwardLeft(fs', t) < ForwardLeft(fs, s)
                 /\ ForwardLeft(fs', t) >= 0]_vars

\* the scan of the whole tree has completed on an empty storage: the work
\* list is empty, the symbolic link was on it and the file beneath the link
\* was not; the five regular files of the tree were scanned and have one
\* fingerprint each
C34_Witness ==
  \E i \in DOMAIN sc :
    /\ sc[i].pc = "done"
    /\ sc[i].scope.type = "dir"
    /\ sc[i].scope.stack = <<>>
    /\ fs = TreeFs
    /\ sc[i].hist.storeAtStart = <<>>
    /\ \E p \in PathsOf(sc[i].hist.entered) : isSymbolicLink(StatsOf(fs[p]))
    /\ \E p \in TreePaths(fs, Root) \ PathsOf(sc[i].hist.entered) :
         \E d \in Ancestors(Root, p) : isSymbolicLink(StatsOf(fs[d]))
    /\ Len(sc[i].hist.entered) = 8
    /\ sc[i].cumulatedStats.forward = [scanned |-> 5, processed |-> 5, errors |-> 0]
    /\ Len(store) = 5

\* C32: on a file system and with a filter that do not change, the reverse
\* iteration of a directory scope reports a stored fingerprint in scope (the
\* reverse pass counts it as scanned) exactly when the forward iteration of
\* the scope yields its file, also when the file lies beneath a directory
\* the forward iteration prunes.
C32_ForwardReverseAgree ==
  \A i \in DOMAIN sc :
    sc[i].scope.type = "dir" =>
      \A u \in sc[i].hist.delivered :
        u \in Scanned(sc[i].trace) <=> Yields(fs, sc[i].scope, store[u].longFilename)

PreLoadCall == "FingerprintsScanner_getFingerPrint_preLoadFingerprints"

\* the fingerprint the storage holds for the path
StoredFor(st, p) == st[CHOOSE k \in DOMAIN st : st[k].longFilename = p]

\* the fingerprints a cache holds
Cached(map) == {map[n] : n \in DOMAIN map}

\* C35: getFingerPrint for a path whose fingerprint is in the storage.  When
\* the cache holds the path the caller is given the cached fingerprint and
\* the storage is not called.  When it does not, one preload is issued, that
\* starts at the path; when it has called back no other call is outstanding,
\* at most 1000 fingerprints were added to the cache, the fingerprint of the
\* path among them, no entry the cache held before is missing, and the
\* caller is given the fingerprint of the path.
C35_MissPreloadsOnce ==
  [][\A i \in DOMAIN sc :
       LET s == sc[i]
           t == sc'[i]
           before == s.forward.fingerprintsCache
           after == t.forward.fingerprintsCache
           preloads(tr) == CountEvents(tr, {PreLoadCall})
       IN /\ (s.pc = "idle" /\ t.pc = "idle") =>
               /\ after = before
               /\ preloads(t.trace) = preloads(s.trace)
               /\ IsFingerprint(t.loc.fingerprint)
               /\ t.loc.fingerprint \in Cached(before)
               /\ t.loc.fingerprint = StoredFor(store, t.loc.fingerprint.longFilename)
          /\ (s.pc = "idle" /\ t.pc = PreLoadCall) =>
               /\ \A n \in DOMAIN before : before[n].longFilename # t.arg
               /\ after = before
               /\ preloads(t.trace) = preloads(s.trace) + 1
               /\ t.outstanding = 1
          /\ (s.pc = PreLoadCall /\ HasFingerprint(store, s.arg)) =>
               /\ t.pc = "idle"
               /\ t.outstanding = 0
               /\ preloads(t.trace) = preloads(s.trace)
               /\ t.loc.fingerprint = StoredFor(store, s.arg)
               /\ LinkedHashMap_get(after, s.arg) = StoredFor(store, s.arg)
               /\ Cached(before) \subseteq Cached(after)
               /\ Len(after) <= Len(before) + preLoadCount]_vars

\* getFingerPrint has missed a cache that held the first 1000 fingerprints
\* of the storage, for the path of the 1001st: two preloads were issued in
\* all, and the caller was given the fingerprint of the path
C35_Witness ==
  \E i \in DOMAIN sc :
    /\ sc[i].pc = "idle"
    /\ CountEvents(sc[i].trace, {PreLoadCall}) = 2
    /\ sc[i].loc.fingerprint = store[preLoadCount + 1]
    /\ Len(sc[i].forward.fingerprintsCache) > preLoadCount
    /\ sc[i].forward.fingerprintsCache[1] = store[1]
    /\ sc[i].forward.fingerprintsCache[preLoadCount + 1] = store[preLoadCount + 1]

\* a cache with strict first-in first-out eviction: a fingerprint whose path
\* is cached replaces the cached one where it is, another one is added at
\* the end, and the oldest entry is removed when the cache is over its limit
FifoAdd(map, f) ==
  LET added == IF \E n \in DOMAIN map : map[n].longFilename = f.longFilename
               THEN [n \in DOMAIN map |->
                       IF map[n].longFilename = f.longFilename THEN f ELSE map[n]]
               ELSE Append(map, f)
  IN IF Len(added) > cacheLimit THEN Tail(added) ELSE added

\* the fingerprints of a sequence added one by one, in order (the sequence
\* is halved to keep the evaluation shallow)
RECURSIVE FifoAddAll(_, _)
FifoAddAll(map, fingerprints) ==
  IF fingerprints = <<>> THEN map
  ELSE IF Len(fingerprints) = 1 THEN FifoAdd(map, fingerprints[1])
  ELSE LET half == Len(fingerprints) \div 2
           first == FifoAddAll(map, SubSeq(fingerprints, 1, half))
       IN IF Len(first) >= 0
          THEN FifoAddAll(first, SubSeq(fingerprints, half + 1, Len(fingerprints)))
          ELSE first

C37_UncoordinatedScans ==
  \A i \in DOMAIN sc :
    \A u \in sc[i].hist.inserted :
      \A k \in DOMAIN store :
        (k # u /\ store[k].longFilename = store[u].longFilename) =>
          /\ k \notin DOMAIN sc[i].hist.storeAtStart
          /\ k \notin sc[i].hist.inserted
          /\ \E j \in DOMAIN sc \ {i} : sc[j].scans < MaxScans - 2 \/ sc[j].pc # "idle"

\* two scans of the same directory have completed, whose forward passes
\* both looked the new file up before either inserted its fingerprint: each
\* inserted one, and the storage holds two fingerprints of the same path
C37_Witness ==
  /\ \A i \in DOMAIN sc :
       /\ sc[i].pc = "done"
       /\ sc[i].scope.folder = Root
       /\ sc[i].scope.exclusions = <<>>
       /\ Cardinality(sc[i].hist.inserted) = 1
       /\ sc[i].hist.storeAtStart = <<>>
  /\ Len(store) = 2
  /\ store[1].longFilename = store[2].longFilename
  /\ store[1].uuid # store[2].uuid

\* the operations of the forward pass, and those of the reverse iteration
\* once it has started
ForwardOperations ==
  {ListLstatCall, DirectoryLstatCall, "DirectoryScope_nextFile_readdir"}
  \cup ForwardFileOperations

ReverseIterationOperations ==
  {GetFingerPrintsCall, ReverseLstatCall,
   "FilesScope_nextFingerprint_getFingerPrint", "FilesScope_nextFingerprint_lstat"}

FatalErrors == {"EIO", "STORE", "MD5"}

\* C38: the ends are notified on success only.  scanEnded and
\* reverseScanEnded are notified only in a scan that completes,
\* forwardScanEnded only in a step that does not fail, and reverseScanStarted
\* only after forwardScanEnded.  The step in which a scan fails notifies
\* nothing when the failure is that of the forward pass or of the start of
\* the reverse iteration, and one reverseScanProgress, nothing else, when the
\* reverse iteration had started.
C38_EndsOnSuccess ==
  [][\A i \in DOMAIN sc :
       LET s == sc[i]
           t == sc'[i]
           n == Notified(s.trace)
           m == Notified(t.trace)
           fatal == faults' = faults - 1 /\ t.hist.fault \in FatalErrors
       IN /\ CountEvents(m, {"scanEnded"}) = 1 => t.pc = "done"
          /\ CountEvents(m, {"reverseScanEnded"}) = 1 => t.pc = "done"
          /\ CountEvents(m, {"reverseScanStarted"}) = CountEvents(m, {"forwardScanEnded"})
          /\ t.pc = "failed" =>
               /\ CountEvents(m, {"reverseScanEnded", "scanEnded"}) = 0
               /\ t.hist.fault \in FatalErrors
          /\ CountEvents(m, {"forwardScanEnded"}) > CountEvents(n, {"forwardScanEnded"}) =>
               /\ s.pc \in ForwardOperations
               /\ ~fatal
               /\ t.pc # "failed"
          /\ (s.pc # "failed" /\ t.pc = "failed") =>
               /\ fatal
               /\ s.pc \in ForwardOperations =>
                    /\ m = n
                    /\ CountEvents(m, {"forwardScanEnded", "reverseScanStarted"}) = 0
               /\ s.pc = CountFingerPrintsCall =>
                    /\ m = n
                    /\ CountEvents(m, {"reverseScanProgress"}) = 0
               /\ s.pc \in ReverseIterationOperations =>
                    /\ Len(m) = Len(n) + 1
                    /\ SubSeq(m, 1, Len(n)) = n
                    /\ m[Len(m)].ev = "reverseScanProgress"
               /\ s.pc \in ForwardOperations \cup ReverseIterationOperations
                            \cup {CountFingerPrintsCall}]_vars

\* a scan has failed in its reverse pass, on a failure of the storage or of
\* the file system after one fingerprint was scanned: the last notification
\* is a reverseScanProgress, forwardScanEnded and reverseScanStarted were
\* notified, reverseScanEnded and scanEnded were not
C38_Witness ==
  \E i \in DOMAIN sc :
    LET m == Notified(sc[i].trace)
    IN /\ sc[i].pc = "failed"
       /\ sc[i].hist.fault \in {"EIO", "STORE"}
       /\ sc[i].reverse.totalScanned = 1
       /\ CountEvents(m, {"forwardScanEnded"}) = 1
       /\ CountEvents(m, {"reverseScanStarted"}) = 1
       /\ m[Len(m)].ev = "reverseScanProgress"
       /\ CountEvents(m, {"reverseScanEnded", "scanEnded"}) = 0

Md5Calls ==
  {"FingerprintsScanner_processNext_md5_create",
   "FingerprintsScanner_processNext_md5_update"}

\* C39: when md5 fails for a file, new or changed, the scan fails with that
\* error in the same step: no operation is started (no insertFingerprint, no
\* updateFingerprint), nothing is notified, the counters of the processed,
\* inserted and updated files are what they were, and the callback is given
\* the error and no statistics.  The storage is not touched from the lookup
\* of the file to that step.
C39_Md5FailureAborts ==
  [][\A i \in DOMAIN sc :
       LET s == sc[i]
           t == sc'[i]
       IN /\ s.pc \in Md5Calls \cup {PreLoadCall} => store' = store
          /\ (s.pc \in Md5Calls /\ faults' = faults - 1) =>
               /\ t.pc = "failed"
               /\ t.err = t.hist.fault
               /\ t.err = "EIO"
               /\ t.result = NoStatistics
               /\ t.callbacks = s.callbacks + 1
               /\ t.outstanding = 0
               /\ t.trace = s.trace
               /\ CountEvents(t.trace, {"forwardScanEnded"}) = 0
               /\ t.hist.inserted = s.hist.inserted
               /\ t.hist.updated = s.hist.updated
               /\ t.forward.totalScanned = s.forward.totalScanned
               /\ t.forward.totalProcessed = s.forward.totalProcessed
               /\ t.forward.totalInserted = s.forward.totalInserted
               /\ t.forward.totalUpdated = s.forward.totalUpdated
               /\ t.forward.totalProcessed = Cardinality(s.hist.inserted \cup s.hist.updated)]_vars

\* a scan has failed on the md5 of a file that was modified since its
\* fingerprint was stored: the scanner had put the new modification time in
\* the fingerprint of its cache, the storage is what it was when the scan
\* started, no update was issued and nothing was counted as processed
C39_Witness ==
  \E i \in DOMAIN sc :
    /\ sc[i].pc = "failed"
    /\ sc[i].hist.fault = "EIO"
    /\ store # <<>>
    /\ store = sc[i].hist.storeAtStart
    /\ \E f \in Cached(sc[i].forward.fingerprintsCache) :
         /\ f.uuid \in DOMAIN store
         /\ f.mtime > store[f.uuid].mtime
    /\ CountEvents(sc[i].trace, {InsertCall, UpdateCall}) = 0
    /\ sc[i].forward.totalScanned >= 1
    /\ sc[i].forward.totalProcessed = 0
    /\ sc[i].result = NoStatistics

\* the fingerprints of the storage the reverse iteration of the scope is to
\* deliver
InReach(scope, st) ==
  {k \in DOMAIN st :
     IF scope.type = "dir" THEN InFolder(scope.folder, st[k])
     ELSE \E n \in DOMAIN scope.longFilenames : scope.longFilenames[n] = st[k].longFilename}

\* C40: a scope object is used again by the next scan of its caller, in
\* whatever state the previous scan left it.  When scan() is called the
\* forward iteration starts from the folder, or from the first path of the
\* list, alone; when the reverse pass starts, the page offset is 0, no
\* fingerprint is buffered, the iteration is not finished and nothing is
\* counted as processed, or the list is whole again; and a scan that
\* completes without a failure has scanned the files the scope yields and
\* was delivered the fingerprints in its reach, also after a scan that was
\* aborted.
C40_ScopeReused ==
  [][\A i \in DOMAIN sc :
       LET s == sc[i]
           t == sc'[i]
           scope == t.scope
           list == scope.longFilenames
       IN /\ (s.pc = "idle" /\ t.pc # "idle") =>
               IF scope.type = "dir"
               THEN /\ t.pc = DirectoryLstatCall
                    /\ t.arg = scope.folder
                    /\ scope.stack = <<>>
               ELSE /\ t.pc = ListLstatCall
                    /\ t.arg = list[1]
                    /\ scope.remaining = Tail(list)
          /\ CountEvents(t.trace, {"reverseScanStarted"})
               > CountEvents(s.trace, {"reverseScanStarted"}) =>
               IF scope.type = "dir"
               THEN /\ t.pc = CountFingerPrintsCall
                    /\ scope.offset = 0
                    /\ scope.fingerprints = <<>>
                    /\ ~scope.reverseScanFinished
                    /\ scope.processed = UndefinedCount
                    /\ scope.totalRecords = UndefinedCount
               ELSE /\ t.pc = "FilesScope_nextFingerprint_getFingerPrint"
                    /\ t.arg = list[1]
                    /\ scope.remaining = Tail(list)
          /\ (s.pc = CountFingerPrintsCall /\ t.pc # "failed") =>
               /\ scope.processed + Len(scope.fingerprints)
                    + (IF t.pc = ReverseLstatCall THEN 1 ELSE 0) = scope.offset
               /\ scope.totalRecords = Cardinality(InReach(scope, store))
          /\ (t.pc = "done" /\ ~t.hist.faulted) =>
               /\ t.cumulatedStats.forward.scanned = NumberYielded(fs', scope)
               /\ t.hist.delivered = InReach(scope, store')
               /\ scope.type = "dir" => scope.processed = scope.totalRecords]_vars

\* the scan of the folder has completed, after a scan of the same scope that
\* was aborted when it had inserted the fingerprint of one of the two files;
\* the file system was not changed: the two files were scanned, the other
\* fingerprint was inserted, and the two fingerprints were delivered
C40_Witness ==
  \E i \in DOMAIN sc :
    /\ sc[i].pc = "done"
    /\ sc[i].scope.type = "dir"
    /\ sc[i].hist.aborted
    /\ ~sc[i].hist.faulted
    /\ fs = InitialFs
    /\ Len(sc[i].hist.storeAtStart) = 1
    /\ sc[i].hist.inserted = {2}
    /\ sc[i].cumulatedStats.forward.scanned = 2
    /\ sc[i].hist.delivered = {1, 2}

====
